---- MODULE Spec2Model ----
(***************************************************************************)
(* TerraMine: boost state machine, property purchase, earnings flush,      *)
(* check-in and grid addressing, modelled from the TypeScript sources.     *)
(*                                                                         *)
(* Times are integers in milliseconds, as Date.getTime() returns them.     *)
(* An ISO-8601 string produced by toISOString() and parsed back by         *)
(* new Date(...) carries exactly the millisecond value, so timestamps are  *)
(* kept as their millisecond value in the session and in the store.        *)
(***************************************************************************)
EXTENDS Integers, Sequences, FiniteSets, TLC

VARIABLES
  now,            \* wall clock, ms
  boostState,     \* MapScreen useState boostState
  userDoc,        \* users/{userId} document: the boost fields
  timerResetAt,   \* nextFreeBoostResetAt captured by the updateBoostTimer closure
  resetExpiresAt, \* boostExpiresAt captured by the checkResetTimer closure
  writeQueue,     \* updateBoostState writes issued and not yet applied (in order)
  paidGranted,    \* history: paid grants that took effect in this account
  freeRun,        \* history: free grants made back to back from a fresh state
  firstGrantAt,   \* history: time of the first grant of the current run
  loadedDoc,      \* history: the user document a followed session start read
  properties,     \* store: properties/{id}.ownerId, per grid id
  mineTypes,      \* store: properties/{id}.mineType, per grid id
  purchasedAt,    \* store: properties/{id}.purchasedAt, per grid id
  tbBalance,      \* store: users/{userId}.tbBalance
  totalCheckIns,  \* store: users/{userId}.totalCheckIns
  checkIns,       \* store: the checkIns collection, in order of creation
  userTB,         \* MainNavigator useState userTB, per session
  stats,          \* MainNavigator useState totalCheckIns and totalTBEarned
  ownedProperties, \* MainNavigator useState ownedProperties (id and mineType)
  allProperties,  \* MainNavigator useState allProperties (owner per grid id)
  gridSquares,    \* MapScreen useState gridSquares (owner per grid id)
  selectedSquare, \* MapScreen useState selectedSquare
  userLocation,   \* MapScreen useState userLocation, as the grid id it lies in
  showCheckInModal, \* MapScreen useState showCheckInModal
  lastCheckIns,   \* MapScreen useState lastCheckIns (day per grid id)
  calls,          \* purchases and check-ins awaiting the store
  today,          \* the US-Eastern calendar day of the wall clock
  userDocB,       \* second service: users/{userId}, earnings and boost fields
  sessionB,       \* second MapScreen: money counter and boost status (useState)
  earnQueue,      \* updateUserEarnings writes of saveCurrentEarnings not yet applied
  freeRunB,       \* history: free grants made back to back from a fresh account
  firstGrantAtB,  \* history: time of the first grant of that run
  exhaustedAtB,   \* history: time of the grant that took the stored quota to 0
  autoSave,       \* second MapScreen: the auto-save interval (when mounted, when set, firings)
  storedUsdEarnings, \* first service: users/{userId}.usdEarnings
  usdEarnings,    \* MainNavigator useState usdEarnings
  flushCount,     \* history: flushes performed
  lastFlush,      \* history: argument and time of the last flush
  adShowing,      \* AdMobService: a rewarded ad is on the screen
  earnedListeners, \* AdMobService: EARNED_REWARD listeners of showAd, each with its closure
  activations,    \* second service: the activateBoost call of each session of one user
  freeGranted,    \* history: free grants that succeeded since the last replenishment
  watchPc,        \* LocationService: where startWatchingLocation stands
  watchSubscription, \* LocationService: this.watchSubscription is set
  osWatching,     \* expo-location: the position watch is registered and delivers
  stopped,        \* history: stopWatchingLocation has returned
  lastCallback,   \* history: the coordinates the callback was last called with
  callbackAfterStop, \* history: the callback was called after stopWatchingLocation returned
  gridArgs,       \* arguments of the last call of getVisibleGridSquares
  gridIds         \* what that call returned

boostVars == <<now, boostState, userDoc, timerResetAt, resetExpiresAt,
               writeQueue, paidGranted, freeRun, firstGrantAt, loadedDoc>>

storeVars == <<properties, mineTypes, purchasedAt, tbBalance, totalCheckIns, checkIns>>

sessionVars == <<userTB, stats, ownedProperties, allProperties, gridSquares,
                 selectedSquare, userLocation, showCheckInModal, lastCheckIns>>

mapVars == <<storeVars, sessionVars, calls, today>>

bVars == <<userDocB, sessionB, earnQueue, freeRunB, firstGrantAtB, exhaustedAtB,
           autoSave>>

flushVars == <<storedUsdEarnings, usdEarnings, flushCount, lastFlush>>

gridVars == <<gridArgs, gridIds>>

adVars == <<adShowing, earnedListeners>>

twoVars == <<activations, freeGranted>>

locVars == <<watchPc, watchSubscription, osWatching, stopped, lastCallback,
             callbackAfterStop>>

serviceVars == <<adVars, twoVars, locVars>>

nonBoostVars == <<mapVars, bVars, flushVars, gridVars, serviceVars>>

nonMapVars == <<boostVars, bVars, flushVars, gridVars, serviceVars>>

vars == <<boostVars, nonBoostVars>>

----------------------------------------------------------------------------
(* JavaScript values that are not numbers *)

Null == -1
Undefined == -2
NaN == -3
Keep == -4

\* x >= n in JavaScript: false when x is undefined or NaN
JsGe(x, n) == x # Undefined /\ x # NaN /\ x >= n

\* x + 1 in JavaScript: undefined + 1 and NaN + 1 are NaN
JsInc(x) == IF x = Undefined \/ x = NaN THEN NaN ELSE x + 1

----------------------------------------------------------------------------
(* Program constants *)

MAX_BOOST_MINUTES == 480
MAX_AD_BOOSTS == 12
MAX_FREE_BOOSTS == 4
MS_PER_MINUTE == 60000
BOOST_INCREMENT_MS == 30 * 60 * 1000
RESET_COOLDOWN_MS == 6 * 60 * 60 * 1000

(* Bounds of the model *)

MaxPaidGranted == 2
MaxPaidChain == 17
MaxPaidReplenish == 9
MaxListeners == 2
\* the instants the clock is observed at: 0, 30 s, 5 min, 30 min, 6 h, 6 h 5 min
TimePoints == {0, 30000, 300000, 1800000, 21600000, 21900000}
InitialAdBoostsUsed == {Undefined, 0}

----------------------------------------------------------------------------
(* The store: updateDoc merges the fields that are present in the patch *)

Patch(free, ad, exp, reset) ==
  [freeBoostsRemaining |-> free, adBoostsUsed |-> ad,
   boostExpiresAt |-> exp, nextFreeBoostResetAt |-> reset]

updateDoc(doc, patch) ==
  [f \in DOMAIN doc |-> IF patch[f] = Keep THEN doc[f] ELSE patch[f]]

\* setBoostState(prev => ({ ...prev, ...newState }))
setBoostState(prev, newState) ==
  [f \in DOMAIN prev |->
     IF f \in DOMAIN newState /\ newState[f] # Keep THEN newState[f] ELSE prev[f]]

\* a write in flight: the patch, who awaits it ("free" or "ad" handler, or
\* nobody for a timer callback), and for the history the time the handler
\* ran, whether it ran with no other grant in flight, and from a fresh state
Write(patch, kind, at, solo, fresh) ==
  [patch |-> patch, kind |-> kind, at |-> at, solo |-> solo, fresh |-> fresh]

TimerWrite(patch) == Write(patch, "timer", 0, FALSE, FALSE)

----------------------------------------------------------------------------
(* The two timer callbacks of MapScreen.  Each takes the values its closure *)
(* captured, the current state b (for the functional setState) and the      *)
(* queue of writes, and returns the new state and queue.                    *)

updateBoostTimer(b, q, t, expiresAt, resetAt) ==
  IF expiresAt = Null
  THEN [b |-> [b EXCEPT !.boostTimeRemaining = 0, !.isBoostActive = FALSE], q |-> q]
  ELSE IF expiresAt - t <= 0
       THEN [b |-> [b EXCEPT !.boostTimeRemaining = 0, !.isBoostActive = FALSE,
                             !.boostExpiresAt = Null],
             q |-> Append(q, TimerWrite(Patch(Keep, Keep, Null, resetAt)))]
       ELSE [b |-> [b EXCEPT !.boostTimeRemaining = expiresAt - t,
                             !.isBoostActive = TRUE],
             q |-> q]

\* a reset check that refills the quota and leaves the reset time in place
checkResetTimerKeepsTime(b, q, t, expiresAt, resetAt) ==
  IF resetAt = Null
  THEN [b |-> b, q |-> q]
  ELSE IF t >= resetAt
       THEN [b |-> [b EXCEPT !.freeBoostsRemaining = 4],
             q |-> Append(q, TimerWrite(Patch(4, Keep, expiresAt, resetAt)))]
       ELSE [b |-> b, q |-> q]

checkResetTimer(b, q, t, expiresAt, resetAt) ==
  IF resetAt = Null
  THEN [b |-> b, q |-> q]
  ELSE IF t >= resetAt
       THEN [b |-> [b EXCEPT !.freeBoostsRemaining = 4, !.nextFreeBoostResetAt = Null],
             q |-> Append(q, TimerWrite(Patch(4, Keep, expiresAt, Null)))]
       ELSE [b |-> b, q |-> q]

\* One render: each effect whose dependency changed captures the rendered
\* state and calls its callback once.
Render(s, t) ==
  LET b0 == s.b
      r1 == IF s.chE THEN updateBoostTimer(b0, s.q, t, b0.boostExpiresAt, b0.nextFreeBoostResetAt)
                     ELSE [b |-> b0, q |-> s.q]
      r2 == IF s.chR THEN checkResetTimer(r1.b, r1.q, t, b0.boostExpiresAt, b0.nextFreeBoostResetAt)
                     ELSE r1
  IN [b |-> r2.b, q |-> r2.q,
      c1 |-> IF s.chE THEN b0.nextFreeBoostResetAt ELSE s.c1,
      c2 |-> IF s.chR THEN b0.boostExpiresAt ELSE s.c2,
      chE |-> r2.b.boostExpiresAt # b0.boostExpiresAt,
      chR |-> r2.b.nextFreeBoostResetAt # b0.nextFreeBoostResetAt]

\* Renders until no effect dependency changes any more (two rounds suffice:
\* a callback only ever clears the field its own effect depends on).
Settle(b, q, c1, c2, chE, chR, t) ==
  Render(Render([b |-> b, q |-> q, c1 |-> c1, c2 |-> c2, chE |-> chE, chR |-> chR], t), t)

----------------------------------------------------------------------------
(* Session start: MainNavigator.loadUserData builds initialBoostState from  *)
(* the user document, MapScreen mounts with it and runs both effects.       *)

initialBoostState(doc, ad) ==
  [freeBoostsRemaining |-> doc.freeBoostsRemaining,
   adBoostsUsed |-> ad,
   boostExpiresAt |-> doc.boostExpiresAt,
   nextFreeBoostResetAt |-> doc.nextFreeBoostResetAt,
   boostTimeRemaining |-> 0,
   isBoostActive |-> FALSE]

createUser ==
  [freeBoostsRemaining |-> 4, adBoostsUsed |-> Undefined,
   boostExpiresAt |-> Null, nextFreeBoostResetAt |-> Null]

\* what a session start read: the document and the time of the read
Loaded(doc, t) == [doc |-> doc, at |-> t]

Mount(doc, ad, t) ==
  Settle(initialBoostState(doc, ad), <<>>, Null, Null, TRUE, TRUE, t)

----------------------------------------------------------------------------
(* Boost actions of MapScreen *)

IsGrant(w) == w.kind \in {"free", "ad"}
GrantInFlight == \E i \in 1..Len(writeQueue) : IsGrant(writeQueue[i])

\* handleFreeBoost, refused: no free boosts remaining
handleFreeBoostNone ==
  /\ boostState.freeBoostsRemaining <= 0
  /\ UNCHANGED <<now, boostState, userDoc, timerResetAt, resetExpiresAt,
                 writeQueue, paidGranted, freeRun, firstGrantAt>>
  /\ UNCHANGED <<loadedDoc, nonBoostVars>>

\* handleFreeBoost, refused: maximum boost time reached
handleFreeBoostMax ==
  /\ ~(boostState.freeBoostsRemaining <= 0)
  /\ boostState.boostTimeRemaining >= MAX_BOOST_MINUTES * MS_PER_MINUTE
  /\ UNCHANGED <<now, boostState, userDoc, timerResetAt, resetExpiresAt,
                 writeQueue, paidGranted, freeRun, firstGrantAt>>
  /\ UNCHANGED <<loadedDoc, nonBoostVars>>

\* the expiry both grant handlers compute
newExpiresAt(b, t) ==
  IF b.boostExpiresAt # Null THEN b.boostExpiresAt + BOOST_INCREMENT_MS
                             ELSE t + BOOST_INCREMENT_MS

\* a free grant that restarts the cooldown whenever it is made
resetAtRestarts(b, t) == t + RESET_COOLDOWN_MS

\* the reset time handleFreeBoost puts in newState
resetAt(b, t) ==
  IF b.freeBoostsRemaining - 1 = 0 /\ b.nextFreeBoostResetAt = Null
  THEN t + RESET_COOLDOWN_MS
  ELSE b.nextFreeBoostResetAt

\* a free grant made without a look at the grants remaining
handleFreeBoostUnguarded ==
  /\ writeQueue = <<>>
  /\ ~(boostState.boostTimeRemaining >= MAX_BOOST_MINUTES * MS_PER_MINUTE)
  /\ LET newFreeBoosts == boostState.freeBoostsRemaining - 1
         newState == Patch(newFreeBoosts, Keep, newExpiresAt(boostState, now),
                           resetAt(boostState, now))
     IN writeQueue' = Append(writeQueue,
                        Write(newState, "free", now, ~GrantInFlight,
                              /\ boostState.freeBoostsRemaining = MAX_FREE_BOOSTS
                              /\ boostState.boostExpiresAt = Null))
  /\ UNCHANGED <<now, boostState, userDoc, timerResetAt, resetExpiresAt,
                 paidGranted, freeRun, firstGrantAt>>
  /\ UNCHANGED <<loadedDoc, nonBoostVars>>

\* handleFreeBoost up to "await dbService.updateBoostState(userId, newState)"
handleFreeBoost ==
  /\ writeQueue = <<>>
  /\ ~(boostState.freeBoostsRemaining <= 0)
  /\ ~(boostState.boostTimeRemaining >= MAX_BOOST_MINUTES * MS_PER_MINUTE)
  /\ LET newFreeBoosts == boostState.freeBoostsRemaining - 1
         newState == Patch(newFreeBoosts, Keep, newExpiresAt(boostState, now),
                           resetAt(boostState, now))
     IN writeQueue' = Append(writeQueue,
                        Write(newState, "free", now, ~GrantInFlight,
                              /\ boostState.freeBoostsRemaining = MAX_FREE_BOOSTS
                              /\ boostState.boostExpiresAt = Null))
  /\ UNCHANGED <<now, boostState, userDoc, timerResetAt, resetExpiresAt,
                 paidGranted, freeRun, firstGrantAt>>
  /\ UNCHANGED <<loadedDoc, nonBoostVars>>

\* handleAdBoost, refused: all ad boosts used
handleAdBoostNone ==
  /\ JsGe(boostState.adBoostsUsed, MAX_AD_BOOSTS)
  /\ UNCHANGED <<now, boostState, userDoc, timerResetAt, resetExpiresAt,
                 writeQueue, paidGranted, freeRun, firstGrantAt>>
  /\ UNCHANGED <<loadedDoc, nonBoostVars>>

\* handleAdBoost, refused: maximum boost time reached
handleAdBoostMax ==
  /\ ~JsGe(boostState.adBoostsUsed, MAX_AD_BOOSTS)
  /\ boostState.boostTimeRemaining >= MAX_BOOST_MINUTES * MS_PER_MINUTE
  /\ UNCHANGED <<now, boostState, userDoc, timerResetAt, resetExpiresAt,
                 writeQueue, paidGranted, freeRun, firstGrantAt>>
  /\ UNCHANGED <<loadedDoc, nonBoostVars>>

\* handleAdBoost up to "await dbService.updateBoostState(userId, newState)";
\* the model stops after `limit` paid grants
AdBoost(limit) ==
  /\ writeQueue = <<>>
  /\ paidGranted < limit
  /\ ~JsGe(boostState.adBoostsUsed, MAX_AD_BOOSTS)
  /\ ~(boostState.boostTimeRemaining >= MAX_BOOST_MINUTES * MS_PER_MINUTE)
  /\ LET newState == Patch(Keep, JsInc(boostState.adBoostsUsed),
                           newExpiresAt(boostState, now),
                           boostState.nextFreeBoostResetAt)
     IN writeQueue' = Append(writeQueue,
                        Write(newState, "ad", now, ~GrantInFlight, FALSE))
  /\ UNCHANGED <<now, boostState, userDoc, timerResetAt, resetExpiresAt,
                 paidGranted, freeRun, firstGrantAt>>
  /\ UNCHANGED <<loadedDoc, nonBoostVars>>

\* the history kept for the claims, after the write w of a grant took effect
\* and the renders that follow left the session in state b
RunAfterGrant(w, b) ==
  IF w.kind = "free" /\ w.solo /\ b.boostExpiresAt = w.patch.boostExpiresAt
  THEN IF w.fresh THEN 1 ELSE IF freeRun > 0 THEN freeRun + 1 ELSE 0
  ELSE 0

\* updateBoostState: the store applies the oldest write; a handler awaiting
\* it resumes: setBoostState(prev => ({...prev, ...newState})) and the renders
updateBoostState ==
  /\ writeQueue # <<>>
  /\ LET w == Head(writeQueue)
         b1 == IF IsGrant(w) THEN setBoostState(boostState, w.patch) ELSE boostState
         s == Settle(b1, Tail(writeQueue), timerResetAt, resetExpiresAt,
                     b1.boostExpiresAt # boostState.boostExpiresAt,
                     b1.nextFreeBoostResetAt # boostState.nextFreeBoostResetAt, now)
     IN /\ userDoc' = updateDoc(userDoc, w.patch)
        /\ boostState' = s.b
        /\ writeQueue' = s.q
        /\ timerResetAt' = s.c1
        /\ resetExpiresAt' = s.c2
        /\ paidGranted' = IF w.kind = "ad" THEN paidGranted + 1 ELSE paidGranted
        /\ freeRun' = IF IsGrant(w) THEN RunAfterGrant(w, s.b) ELSE freeRun
        /\ firstGrantAt' = IF ~IsGrant(w) THEN firstGrantAt
                           ELSE IF RunAfterGrant(w, s.b) = 0 THEN 0
                           ELSE IF w.fresh THEN w.at ELSE firstGrantAt
  /\ UNCHANGED now
  /\ UNCHANGED <<loadedDoc, nonBoostVars>>

\* a rejected write that the session takes over all the same
updateBoostStateFailsApplied ==
  /\ writeQueue # <<>>
  /\ writeQueue' = Tail(writeQueue)
  /\ boostState' = IF IsGrant(Head(writeQueue))
                   THEN setBoostState(boostState, Head(writeQueue).patch)
                   ELSE boostState
  /\ UNCHANGED <<now, userDoc, timerResetAt, resetExpiresAt,
                 paidGranted, freeRun, firstGrantAt>>
  /\ UNCHANGED <<loadedDoc, nonBoostVars>>

\* updateBoostState rejects: the write is not applied; an awaiting handler
\* lands in its catch block and changes nothing
updateBoostStateFails ==
  /\ writeQueue # <<>>
  /\ writeQueue' = Tail(writeQueue)
  /\ UNCHANGED <<now, boostState, userDoc, timerResetAt, resetExpiresAt,
                 paidGranted, freeRun, firstGrantAt>>
  /\ UNCHANGED <<loadedDoc, nonBoostVars>>

\* the 1 s interval of the boost timer fires
updateBoostTimerFires ==
  /\ writeQueue = <<>>
  /\ LET r == updateBoostTimer(boostState, writeQueue, now,
                               boostState.boostExpiresAt, timerResetAt)
         s == Settle(r.b, r.q, timerResetAt, resetExpiresAt,
                     r.b.boostExpiresAt # boostState.boostExpiresAt, FALSE, now)
     IN /\ boostState' = s.b
        /\ writeQueue' = s.q
        /\ timerResetAt' = s.c1
        /\ resetExpiresAt' = s.c2
        /\ freeRun' = IF s.b.boostExpiresAt # boostState.boostExpiresAt THEN 0 ELSE freeRun
        /\ firstGrantAt' = IF s.b.boostExpiresAt # boostState.boostExpiresAt
                           THEN 0 ELSE firstGrantAt
  /\ UNCHANGED <<now, userDoc, paidGranted>>
  /\ UNCHANGED <<loadedDoc, nonBoostVars>>

\* the 60 s interval of the free boost reset check fires
checkResetTimerFires ==
  /\ writeQueue = <<>>
  /\ LET r == checkResetTimer(boostState, writeQueue, now,
                              resetExpiresAt, boostState.nextFreeBoostResetAt)
         s == Settle(r.b, r.q, timerResetAt, resetExpiresAt, FALSE,
                     r.b.nextFreeBoostResetAt # boostState.nextFreeBoostResetAt, now)
     IN /\ boostState' = s.b
        /\ writeQueue' = s.q
        /\ timerResetAt' = s.c1
        /\ resetExpiresAt' = s.c2
        /\ freeRun' = IF s.b.freeBoostsRemaining # boostState.freeBoostsRemaining
                      THEN 0 ELSE freeRun
        /\ firstGrantAt' = IF s.b.freeBoostsRemaining # boostState.freeBoostsRemaining
                           THEN 0 ELSE firstGrantAt
  /\ UNCHANGED <<now, userDoc, paidGranted>>
  /\ UNCHANGED <<loadedDoc, nonBoostVars>>

\* time passes
Tick ==
  /\ \E t \in TimePoints : t > now /\ now' = t
  /\ UNCHANGED <<boostState, userDoc, timerResetAt, resetExpiresAt, writeQueue,
                 paidGranted, freeRun, firstGrantAt>>
  /\ UNCHANGED <<loadedDoc, nonBoostVars>>

\* the same handler, followed until the boost outlasts the cooldown
handleAdBoostReplenish == AdBoost(MaxPaidReplenish)

\* the times at which the replenishment is followed
ReplenishTimePoints == {0, 21600000, 21900000}

\* time passes, to the end of the cooldown and beyond
TickReplenish ==
  /\ \E t \in ReplenishTimePoints : t > now /\ now' = t
  /\ UNCHANGED <<boostState, userDoc, timerResetAt, resetExpiresAt, writeQueue,
                 paidGranted, freeRun, firstGrantAt>>
  /\ UNCHANGED <<loadedDoc, nonBoostVars>>

\* the app is restarted: loadUserData reads the user document and MapScreen
\* mounts with the boost state built from it
loadUserData ==
  /\ writeQueue = <<>>
  /\ \E ad \in InitialAdBoostsUsed :
       LET s == Mount(userDoc, ad, now)
       IN /\ boostState' = s.b
          /\ writeQueue' = s.q
          /\ timerResetAt' = s.c1
          /\ resetExpiresAt' = s.c2
  /\ freeRun' = 0
  /\ firstGrantAt' = 0
  /\ UNCHANGED <<now, userDoc, paidGranted>>
  /\ UNCHANGED <<loadedDoc, nonBoostVars>>

\* the persisted boost states a session start is followed from: no value, a
\* time passed, the time of the start, a time to come
StartTime == 21600000
PersistedTimes == {Null, 1800000, StartTime, 21900000}
PersistedDocs ==
  {[freeBoostsRemaining |-> f, adBoostsUsed |-> Undefined,
    boostExpiresAt |-> e, nextFreeBoostResetAt |-> r] :
     f \in 0..4, e \in PersistedTimes, r \in PersistedTimes}

\* the session start, with what it read kept for the claims
loadUserDataStart ==
  /\ writeQueue = <<>>
  /\ \E ad \in InitialAdBoostsUsed :
       LET s == Mount(userDoc, ad, now)
       IN /\ boostState' = s.b
          /\ writeQueue' = s.q
          /\ timerResetAt' = s.c1
          /\ resetExpiresAt' = s.c2
  /\ freeRun' = 0
  /\ firstGrantAt' = 0
  /\ loadedDoc' = Loaded(userDoc, now)
  /\ UNCHANGED <<now, userDoc, paidGranted>>
  /\ UNCHANGED nonBoostVars

handleAdBoost == AdBoost(MaxPaidGranted)

\* the same handler, followed for a long chain of paid grants
handleAdBoostChain == AdBoost(MaxPaidChain)

----------------------------------------------------------------------------
(* Rewarded ads: BoostModal.handleWatchAd shows the ad through             *)
(* AdMobService.showAd, which adds an EARNED_REWARD and a CLOSED listener   *)
(* to the one rewardedAd; a listener is kept as the boostState of the      *)
(* render whose handleAdBoost it calls.                                     *)

\* handleWatchAd: showAd adds its listeners and shows the ad; the model
\* stops showing ads after MaxPaidGranted paid grants
handleWatchAd ==
  /\ ~adShowing
  /\ writeQueue = <<>>
  /\ paidGranted < MaxPaidGranted
  /\ Len(earnedListeners) < MaxListeners
  /\ adShowing' = TRUE
  /\ earnedListeners' = Append(earnedListeners, boostState)
  /\ UNCHANGED <<boostVars, mapVars, bVars, flushVars, gridVars, twoVars, locVars>>

\* the ad is closed: the CLOSED listener of showAd runs and removes itself;
\* an EARNED_REWARD listener that did not run stays
adClosed ==
  /\ adShowing
  /\ adShowing' = FALSE
  /\ UNCHANGED <<earnedListeners, boostVars, mapVars, bVars, flushVars, gridVars, twoVars, locVars>>

\* handleAdBoost with the boostState b of its render, up to the await: the
\* queue of writes after it
adBoostWrite(q, b, t) ==
  IF JsGe(b.adBoostsUsed, MAX_AD_BOOSTS)
     \/ b.boostTimeRemaining >= MAX_BOOST_MINUTES * MS_PER_MINUTE
  THEN q
  ELSE Append(q, Write(Patch(Keep, JsInc(b.adBoostsUsed), newExpiresAt(b, t),
                             b.nextFreeBoostResetAt),
                       "ad", t, FALSE, FALSE))

\* every listener calls onRewarded, the oldest first
RECURSIVE runListeners(_, _, _)
runListeners(q, listeners, t) ==
  IF listeners = <<>> THEN q
  ELSE runListeners(adBoostWrite(q, Head(listeners), t), Tail(listeners), t)

\* the ad on the screen earns its reward: the EARNED_REWARD listeners run
\* and remove themselves
adEarnedReward ==
  /\ adShowing
  /\ earnedListeners # <<>>
  /\ writeQueue' = runListeners(writeQueue, earnedListeners, now)
  /\ earnedListeners' = <<>>
  /\ UNCHANGED <<adShowing, now, boostState, userDoc, timerResetAt, resetExpiresAt,
                 paidGranted, freeRun, firstGrantAt, loadedDoc>>
  /\ UNCHANGED <<mapVars, bVars, flushVars, gridVars, twoVars, locVars>>

----------------------------------------------------------------------------
(* The map: sessions of the users against one store.  A grid id "x_y" is    *)
(* kept as the pair <<x, y>> of its two integers; a user's location is kept *)
(* as the grid id latLngToGridId gives for it.                              *)

Users == {"u1", "u2"}
NoOwner == "nobody"
NoSquare == [id |-> <<>>, ownerId |-> NoOwner]
GridIds == {<<0, 0>>, <<0, 2>>}
\* the mine types assignMineType draws in the model (of rock, coal, gold, diamond)
MineTypes == {"rock", "diamond"}
NoMine == "none"

PROPERTY_COST == 100
STARTING_TB == 1000
DEFAULT_TB == 1000
OWNER_REWARD == 1
MESSAGE_BONUS == 2
PHOTO_BONUS == 2

(* Bounds of the model *)

MaxCalls == 2
MaxCheckIns == 2
MaxDay == 1
\* persisted balances at the start: a new account, and an account that has
\* spent all but 100 TB, or all, of its balance on cells outside GridIds
InitialBalances == {STARTING_TB, PROPERTY_COST, 0}
Visitors == {"u1"}
Buyers == {"u1"}

Abs(x) == IF x < 0 THEN -x ELSE x

isWithinGridSquare(userGridId, squareId) == userGridId = squareId

\* a range test that looks at the first index only
isAdjacentToUserByX(userGridId, squareId) ==
  Abs(userGridId[1] - squareId[1]) <= 1

isAdjacentToUser(userGridId, squareId) ==
  LET xDiff == Abs(userGridId[1] - squareId[1])
      yDiff == Abs(userGridId[2] - squareId[2])
  IN xDiff <= 1 /\ yDiff <= 1

\* a square as the session holds it: isOwned is true exactly when there is
\* an ownerId
Square(c, owner) == [id |-> c, ownerId |-> owner]

\* x || d in JavaScript for a number x: 0 is falsy
JsOr(x, d) == IF x = 0 \/ x = NaN \/ x = Undefined THEN d ELSE x

\* a property as getPropertiesByOwner returns it and ownedProperties holds it
Property(c, mt) == [id |-> c, mineType |-> mt]

\* getPropertiesByOwner
getPropertiesByOwner(u) ==
  {Property(c, mineTypes[c]) : c \in {d \in GridIds : properties[d] = u}}

\* an asynchronous call in flight: a purchase (with the mine type drawn for
\* it) or a check-in (with the owner and the TB earned), and the request to
\* the store it is waiting for
Call(op, u, c, owner, mt, tb, pc) ==
  [op |-> op, user |-> u, id |-> c, ownerId |-> owner, mineType |-> mt,
   tbEarned |-> tb, earnings |-> 0, pc |-> pc]

RemoveAt(q, i) == [j \in 1..(Len(q) - 1) |-> IF j < i THEN q[j] ELSE q[j + 1]]

SetPc(q, i, pc) == [q EXCEPT ![i].pc = pc]

InFlight(u) == \E i \in 1..Len(calls) : calls[i].user = u

\* loadNearbyProperties: a square shows the owner allProperties has for it,
\* else the owner the existing square has
loadNearbyProperties(all, squares) ==
  [c \in GridIds |-> IF all[c] # NoOwner THEN all[c] ELSE squares[c]]

\* MainNavigator.loadUserData, the balance: userData?.tbBalance || 1000
loadedTB(balance) == JsOr(balance, DEFAULT_TB)

\* the app is started: loadUserData reads the store, MapScreen mounts
StartSession(u) ==
  /\ ~InFlight(u)
  /\ userTB' = [userTB EXCEPT ![u] = loadedTB(tbBalance[u])]
  /\ stats' = [stats EXCEPT ![u] = [totalCheckIns |-> totalCheckIns[u],
                                    totalTBEarned |-> 0]]
  /\ ownedProperties' = [ownedProperties EXCEPT ![u] = getPropertiesByOwner(u)]
  /\ allProperties' = [allProperties EXCEPT ![u] = properties]
  /\ gridSquares' = [gridSquares EXCEPT ![u] = properties]
  /\ selectedSquare' = [selectedSquare EXCEPT ![u] = NoSquare]
  /\ showCheckInModal' = [showCheckInModal EXCEPT ![u] = FALSE]
  /\ lastCheckIns' = [lastCheckIns EXCEPT ![u] = [c \in GridIds |-> Null]]
  /\ UNCHANGED <<storeVars, userLocation, calls, today>>

loadUserDataMap(u) == StartSession(u) /\ UNCHANGED nonMapVars

\* the location watch delivers a new location: the callback of the first
\* render rebuilds the squares from what it captured, then the effect on
\* userLocation rebuilds them from allProperties
watchLocation(u) ==
  /\ \E c \in GridIds :
       /\ c # userLocation[u]
       /\ userLocation' = [userLocation EXCEPT ![u] = c]
  /\ gridSquares' = [gridSquares EXCEPT ![u] = allProperties[u]]
  /\ UNCHANGED <<storeVars, userTB, stats, ownedProperties, allProperties,
                 selectedSquare, showCheckInModal, lastCheckIns, calls, today>>
  /\ UNCHANGED nonMapVars

handleSquarePress(u) ==
  /\ \E c \in GridIds :
       selectedSquare' = [selectedSquare EXCEPT ![u] = Square(c, gridSquares[u][c])]
  /\ showCheckInModal' = [showCheckInModal EXCEPT ![u] = FALSE]
  /\ UNCHANGED <<storeVars, userTB, stats, ownedProperties, allProperties,
                 gridSquares, userLocation, lastCheckIns, calls, today>>
  /\ UNCHANGED nonMapVars

\* ProfileScreen: a press on one of the user's properties
navigateToProperty(u) ==
  /\ \E p \in ownedProperties[u] :
       selectedSquare' = [selectedSquare EXCEPT ![u] = Square(p.id, u)]
  /\ UNCHANGED <<storeVars, userTB, stats, ownedProperties, allProperties,
                 gridSquares, userLocation, showCheckInModal, lastCheckIns,
                 calls, today>>
  /\ UNCHANGED nonMapVars

----------------------------------------------------------------------------
(* Property purchase *)

purchaseRefusal(u) ==
  LET sq == selectedSquare[u]
  IN \/ userTB[u] < PROPERTY_COST
     \/ sq.ownerId # NoOwner
     \/ \E p \in ownedProperties[u] : p.id = sq.id
     \/ ~isAdjacentToUser(userLocation[u], sq.id)

\* handlePurchaseProperty, refused with an alert
handlePurchasePropertyRefused(u) ==
  /\ selectedSquare[u] # NoSquare
  /\ purchaseRefusal(u)
  /\ UNCHANGED <<mapVars, nonMapVars>>

\* handlePurchaseProperty: the purchase is handed to onPropertyPurchase and is
\* not awaited; the square is marked as owned at once
handlePurchaseProperty(u) ==
  /\ selectedSquare[u] # NoSquare
  /\ ~purchaseRefusal(u)
  /\ Len(calls) < MaxCalls
  /\ LET c == selectedSquare[u].id
     IN /\ \E mineType \in MineTypes :
             calls' = Append(calls, Call("purchase", u, c, NoOwner, mineType, 0, "getDoc"))
        /\ gridSquares' = [gridSquares EXCEPT ![u][c] = u]
        /\ selectedSquare' = [selectedSquare EXCEPT ![u] = Square(c, u)]
  /\ UNCHANGED <<storeVars, userTB, stats, ownedProperties, allProperties,
                 userLocation, showCheckInModal, lastCheckIns, today>>
  /\ UNCHANGED nonMapVars

\* purchaseProperty: getDoc finds the property document
purchasePropertyAlreadyOwned ==
  /\ \E i \in 1..Len(calls) :
       /\ calls[i].op = "purchase" /\ calls[i].pc = "getDoc"
       /\ properties[calls[i].id] # NoOwner
       /\ calls' = RemoveAt(calls, i)
  /\ UNCHANGED <<storeVars, sessionVars, today, nonMapVars>>

\* purchaseProperty: getDoc finds no document
purchasePropertyGetDoc ==
  /\ \E i \in 1..Len(calls) :
       /\ calls[i].op = "purchase" /\ calls[i].pc = "getDoc"
       /\ properties[calls[i].id] = NoOwner
       /\ calls' = SetPc(calls, i, "setDoc")
  /\ UNCHANGED <<storeVars, sessionVars, today, nonMapVars>>

\* setDoc(propertyRef, {..., ownerId: userId, mineType: ..., ...}), for one
\* field of the document
setDoc(field, c, value) == [field EXCEPT ![c] = value]

purchasePropertySetDoc ==
  /\ \E i \in 1..Len(calls) :
       /\ calls[i].op = "purchase" /\ calls[i].pc = "setDoc"
       /\ properties' = setDoc(properties, calls[i].id, calls[i].user)
       /\ mineTypes' = setDoc(mineTypes, calls[i].id, calls[i].mineType)
       /\ purchasedAt' = setDoc(purchasedAt, calls[i].id, now)
       /\ calls' = SetPc(calls, i, "updateUserBalance")
  /\ UNCHANGED <<tbBalance, totalCheckIns, checkIns, sessionVars, today, nonMapVars>>

\* updateUserBalance(userId, -tbCost), after which handlePropertyPurchase
\* updates the session
PurchaseDebited(i) ==
  LET u == calls[i].user
      c == calls[i].id
      all == IF allProperties[u][c] = NoOwner
             THEN [allProperties[u] EXCEPT ![c] = u]
             ELSE allProperties[u]
  IN /\ calls[i].op = "purchase" /\ calls[i].pc = "updateUserBalance"
     /\ tbBalance' = [tbBalance EXCEPT ![u] = @ - PROPERTY_COST]
     /\ ownedProperties' = [ownedProperties EXCEPT
                              ![u] = @ \cup {Property(c, calls[i].mineType)}]
     /\ allProperties' = [allProperties EXCEPT ![u] = all]
     /\ userTB' = [userTB EXCEPT ![u] = @ - PROPERTY_COST]
     /\ gridSquares' = [gridSquares EXCEPT
                          ![u] = loadNearbyProperties(all, gridSquares[u])]
     /\ calls' = RemoveAt(calls, i)
     /\ UNCHANGED <<properties, mineTypes, purchasedAt, totalCheckIns, checkIns, stats,
                    selectedSquare, userLocation, showCheckInModal, lastCheckIns,
                    today>>

purchasePropertyUpdateUserBalance ==
  /\ \E i \in 1..Len(calls) : PurchaseDebited(i)
  /\ UNCHANGED nonMapVars

\* the store rejects the request a purchase is waiting for
purchasePropertyRejects ==
  /\ \E i \in 1..Len(calls) :
       /\ calls[i].op = "purchase"
       /\ calls' = RemoveAt(calls, i)
  /\ UNCHANGED <<storeVars, sessionVars, today, nonMapVars>>

----------------------------------------------------------------------------
(* Check-in *)

canCheckInToday(u, c) == lastCheckIns[u][c] = Null \/ lastCheckIns[u][c] # today

checkInRefusal(u) ==
  LET sq == selectedSquare[u]
  IN \/ sq.ownerId = NoOwner
     \/ sq.ownerId = u
     \/ ~isWithinGridSquare(userLocation[u], sq.id)
     \/ ~canCheckInToday(u, sq.id)

\* handleCheckIn, refused with an alert
handleCheckInRefused(u) ==
  /\ selectedSquare[u] # NoSquare
  /\ checkInRefusal(u)
  /\ UNCHANGED <<mapVars, nonMapVars>>

\* handleCheckIn opens the check-in modal
handleCheckIn(u) ==
  /\ selectedSquare[u] # NoSquare
  /\ ~checkInRefusal(u)
  /\ showCheckInModal' = [showCheckInModal EXCEPT ![u] = TRUE]
  /\ UNCHANGED <<storeVars, userTB, stats, ownedProperties, allProperties,
                 gridSquares, selectedSquare, userLocation, lastCheckIns,
                 calls, today>>
  /\ UNCHANGED nonMapVars

\* the Cancel button of the modal
cancelCheckIn(u) ==
  /\ showCheckInModal[u]
  /\ showCheckInModal' = [showCheckInModal EXCEPT ![u] = FALSE]
  /\ UNCHANGED <<storeVars, userTB, stats, ownedProperties, allProperties,
                 gridSquares, selectedSquare, userLocation, lastCheckIns,
                 calls, today>>
  /\ UNCHANGED nonMapVars

\* submitCheckIn(withPhoto) up to "await onCheckIn(...)": one of the two
\* buttons of the modal, with or without a message typed, the photo taken
submitCheckIn(u) ==
  /\ showCheckInModal[u]
  /\ selectedSquare[u] # NoSquare
  /\ selectedSquare[u].ownerId # NoOwner
  /\ Len(calls) < MaxCalls
  /\ Len(checkIns) + Len(calls) < MaxCheckIns
  /\ \E hasMessage \in BOOLEAN, photoUri \in BOOLEAN :
       LET sq == selectedSquare[u]
           tbEarned == 1 + (IF hasMessage THEN MESSAGE_BONUS ELSE 0)
                         + (IF photoUri THEN PHOTO_BONUS ELSE 0)
       IN /\ lastCheckIns' = [lastCheckIns EXCEPT ![u][sq.id] = today]
          /\ calls' = Append(calls, Call("checkIn", u, sq.id, sq.ownerId,
                                          NoMine, tbEarned, "setDoc"))
  /\ UNCHANGED <<storeVars, userTB, stats, ownedProperties, allProperties,
                 gridSquares, selectedSquare, userLocation, showCheckInModal,
                 today>>
  /\ UNCHANGED nonMapVars

\* submitCheckIn(true) when no photo comes back from the camera
submitCheckInNoPhoto(u) ==
  /\ showCheckInModal[u]
  /\ selectedSquare[u] # NoSquare
  /\ selectedSquare[u].ownerId # NoOwner
  /\ UNCHANGED <<mapVars, nonMapVars>>

\* createCheckIn: setDoc(checkInRef, checkInData)
createCheckInSetDoc ==
  /\ \E i \in 1..Len(calls) :
       /\ calls[i].op = "checkIn" /\ calls[i].pc = "setDoc"
       /\ checkIns' = Append(checkIns, [userId |-> calls[i].user,
                                        propertyId |-> calls[i].id,
                                        propertyOwnerId |-> calls[i].ownerId,
                                        day |-> today])
       /\ calls' = SetPc(calls, i, "totalCheckIns")
  /\ UNCHANGED <<properties, mineTypes, purchasedAt, tbBalance, totalCheckIns, sessionVars, today, nonMapVars>>

\* createCheckIn: updateDoc(userRef, {totalCheckIns: increment(1)})
createCheckInVisitorStats ==
  /\ \E i \in 1..Len(calls) :
       /\ calls[i].op = "checkIn" /\ calls[i].pc = "totalCheckIns"
       /\ totalCheckIns' = [totalCheckIns EXCEPT ![calls[i].user] = @ + 1]
       /\ calls' = SetPc(calls, i, "ownerReward")
  /\ UNCHANGED <<properties, mineTypes, purchasedAt, tbBalance, checkIns, sessionVars, today, nonMapVars>>

\* createCheckIn: updateDoc(ownerRef, {tbBalance: increment(1)})
createCheckInOwnerReward ==
  /\ \E i \in 1..Len(calls) :
       /\ calls[i].op = "checkIn" /\ calls[i].pc = "ownerReward"
       /\ tbBalance' = [tbBalance EXCEPT ![calls[i].ownerId] = @ + OWNER_REWARD]
       /\ calls' = SetPc(calls, i, "updateUserBalance")
  /\ UNCHANGED <<properties, mineTypes, purchasedAt, totalCheckIns, checkIns, sessionVars, today, nonMapVars>>

\* MainNavigator.handleCheckIn: updateUserBalance(user.uid, tbEarned) and the
\* session counters; submitCheckIn then closes the modal
handleCheckInUpdateUserBalance ==
  /\ \E i \in 1..Len(calls) :
       LET u == calls[i].user
           tb == calls[i].tbEarned
       IN /\ calls[i].op = "checkIn" /\ calls[i].pc = "updateUserBalance"
          /\ tbBalance' = [tbBalance EXCEPT ![u] = @ + tb]
          /\ userTB' = [userTB EXCEPT ![u] = @ + tb]
          /\ stats' = [stats EXCEPT ![u] =
                         [totalCheckIns |-> @.totalCheckIns + 1,
                          totalTBEarned |-> @.totalTBEarned + tb]]
          /\ showCheckInModal' = [showCheckInModal EXCEPT ![u] = FALSE]
          /\ calls' = RemoveAt(calls, i)
  /\ UNCHANGED <<properties, mineTypes, purchasedAt, totalCheckIns, checkIns, ownedProperties,
                 allProperties, gridSquares, selectedSquare, userLocation,
                 lastCheckIns, today>>
  /\ UNCHANGED nonMapVars

\* the store rejects the request a check-in is waiting for: onCheckIn
\* rejects, submitCheckIn alerts and leaves the modal open
checkInRejects ==
  /\ \E i \in 1..Len(calls) :
       /\ calls[i].op = "checkIn"
       /\ calls' = RemoveAt(calls, i)
  /\ UNCHANGED <<storeVars, sessionVars, today, nonMapVars>>

\* the uid field of users/{u}: createUser, the only writer of the user
\* documents, writes none
NoUid == "undefined"
UidOf(u) == NoUid

\* createCheckIn of the second service: addDoc(collection(db, 'checkIns'), ...)
createCheckInAddDocB ==
  /\ \E i \in 1..Len(calls) :
       /\ calls[i].op = "checkIn" /\ calls[i].pc = "setDoc"
       /\ checkIns' = Append(checkIns, [userId |-> calls[i].user,
                                        propertyId |-> calls[i].id,
                                        propertyOwnerId |-> calls[i].ownerId,
                                        day |-> today])
       /\ calls' = SetPc(calls, i, "ownerQuery")
  /\ UNCHANGED <<properties, mineTypes, purchasedAt, tbBalance, totalCheckIns, sessionVars, today, nonMapVars>>

\* createCheckIn of the second service: the query of the users whose uid is
\* the owner's comes back empty and nothing is written (a document found
\* would get totalTB: (totalTB || 0) + 1, and tbBalance would stay)
createCheckInOwnerQueryB ==
  /\ \E i \in 1..Len(calls) :
       /\ calls[i].op = "checkIn" /\ calls[i].pc = "ownerQuery"
       /\ {o \in Users : UidOf(o) = calls[i].ownerId} = {}
       /\ calls' = SetPc(calls, i, "updateUserBalance")
  /\ UNCHANGED <<storeVars, sessionVars, today, nonMapVars>>

\* midnight in New York
NextDay ==
  /\ today < MaxDay
  /\ today' = today + 1
  /\ UNCHANGED <<storeVars, sessionVars, calls, nonMapVars>>

----------------------------------------------------------------------------
(* The second variant of the service and of the map screen: earnings and   *)
(* the boost kept in the store.  Rates are in units of 1e-10 USD per second *)
(* and amounts of USD in units of 1e-10 USD.  The code divides a difference *)
(* of getTime() values by 1000 to get seconds; the times of the model are   *)
(* whole seconds, so the division is exact.                                 *)

rentRates == [rock |-> 11, coal |-> 16, gold |-> 22, diamond |-> 44]

MAX_BOOST_MINUTES_B == 360
BOOST_MINUTES == 30

(* Bounds of the model *)

MaxEarnQueue == 2
Earner == "u1"
\* the times at which the money counter is followed
EarnTimePoints == {0, 300000, 1800000}

MS_PER_SECOND == 1000
Seconds(ms) == ms \div MS_PER_SECOND

Min(a, b) == IF a <= b THEN a ELSE b

RECURSIVE baseRatePerSecond(_)
baseRatePerSecond(props) ==
  IF props = {} THEN 0
  ELSE LET p == CHOOSE q \in props : TRUE
       IN rentRates[p.mineType] + baseRatePerSecond(props \ {p})

\* a rate that ignores the boost
calculateEarningsRatePlain(props, isBoostActive) == baseRatePerSecond(props)

calculateEarningsRate(props, isBoostActive) ==
  IF isBoostActive THEN baseRatePerSecond(props) * 2 ELSE baseRatePerSecond(props)

createUserB(t) ==
  [usdEarnings |-> 0, lastEarningsUpdate |-> t, boostEndTime |-> Null,
   lastBoostReset |-> t, freeBoostsRemaining |-> 4]

\* what calculateOfflineEarnings returns when the user is not found or a
\* read throws
NoEarnings ==
  [totalEarnings |-> 0, previousEarnings |-> 0, newEarnings |-> 0,
   elapsed |-> 0, boosted |-> 0]

\* a catch-up that credits the whole interval at the plain rate
calculateOfflineEarningsPlain(userData, props, t) ==
  LET newEarnings == baseRatePerSecond(props) * Seconds(t - userData.lastEarningsUpdate)
      previousEarnings == JsOr(userData.usdEarnings, 0)
  IN [totalEarnings |-> previousEarnings + newEarnings,
      previousEarnings |-> previousEarnings, newEarnings |-> newEarnings,
      elapsed |-> t - userData.lastEarningsUpdate, boosted |-> 0]

calculateOfflineEarnings(userData, props, t) ==
  LET rate == baseRatePerSecond(props)
      lastUpdate == userData.lastEarningsUpdate
      elapsed == t - lastUpdate
      boostEndTime == userData.boostEndTime
      boosted == IF boostEndTime # Null /\ boostEndTime > lastUpdate
                 THEN (IF boostEndTime > t THEN t ELSE boostEndTime) - lastUpdate
                 ELSE 0
      normal == elapsed - boosted
      newEarnings == rate * Seconds(normal) + rate * 2 * Seconds(boosted)
      previousEarnings == JsOr(userData.usdEarnings, 0)
  IN [totalEarnings |-> previousEarnings + newEarnings,
      previousEarnings |-> previousEarnings, newEarnings |-> newEarnings,
      elapsed |-> elapsed, boosted |-> boosted]

checkAndResetBoosts(userData, t) ==
  IF t - userData.lastBoostReset >= RESET_COOLDOWN_MS
  THEN [userData EXCEPT !.freeBoostsRemaining = 4, !.lastBoostReset = t]
  ELSE userData

\* activateBoost treated as one step: the user document after it and
\* whether the boost was granted
activateBoost(doc, t, isFree) ==
  LET userData == checkAndResetBoosts(doc, t)
      currentBoostEnd == userData.boostEndTime
      isBoostActive == currentBoostEnd # Null /\ currentBoostEnd > t
      totalBoostMinutes == IF isBoostActive
                           THEN (currentBoostEnd - t) \div MS_PER_MINUTE
                           ELSE 0
      newBoostMinutes == Min(totalBoostMinutes + BOOST_MINUTES, MAX_BOOST_MINUTES_B)
  IN IF totalBoostMinutes >= MAX_BOOST_MINUTES_B
        \/ (isFree /\ userData.freeBoostsRemaining <= 0)
     THEN [success |-> FALSE, doc |-> userData]
     ELSE [success |-> TRUE,
           doc |-> [userData EXCEPT
                      !.boostEndTime = t + newBoostMinutes * MS_PER_MINUTE,
                      !.freeBoostsRemaining = IF isFree THEN @ - 1 ELSE @]]

\* the session state after loadBoostStatus / updateBoostStatus read the
\* status from the document doc, and the effect on [ownedProperties,
\* isBoostActive] recomputed the rate
withBoostStatus(s, doc, t, props) ==
  LET isActive == doc.boostEndTime # Null /\ doc.boostEndTime > t
  IN [s EXCEPT !.isBoostActive = isActive,
               !.freeBoostsRemaining = doc.freeBoostsRemaining,
               !.earningsRate = calculateEarningsRate(props, isActive)]

\* the money counter and the boost status of a MapScreen just mounted, after
\* loadOfflineEarnings got earningsData
mountedSession(earningsData, props, t) ==
  [baseEarnings |-> earningsData.totalEarnings,
   displayEarnings |-> earningsData.totalEarnings,
   earningsRate |-> calculateEarningsRate(props, FALSE),
   sessionStart |-> t,
   isBoostActive |-> FALSE,
   freeBoostsRemaining |-> 4]

\* the auto-save interval of a MapScreen mounted at m, set at t by the effect
\* on [displayEarnings, userId], with the times it has fired since the mount
Armed(m, t, n) == [mountedAt |-> m, armedAt |-> t, fired |-> n]

\* time passes while the money counter runs
TickEarn ==
  /\ \E t \in EarnTimePoints : t > now /\ now' = t
  /\ UNCHANGED <<boostState, userDoc, timerResetAt, resetExpiresAt, writeQueue,
                 paidGranted, freeRun, firstGrantAt>>
  /\ UNCHANGED <<loadedDoc, nonBoostVars>>

\* the app is started: loadUserData, MapScreen mounts, loadOfflineEarnings
loadOfflineEarnings ==
  /\ earnQueue = <<>>
  /\ StartSession(Earner)
  /\ sessionB' = mountedSession(
                   calculateOfflineEarnings(userDocB, getPropertiesByOwner(Earner), now),
                   getPropertiesByOwner(Earner), now)
  /\ freeRunB' = 0
  /\ firstGrantAtB' = 0
  /\ autoSave' = Armed(now, now, 0)
  /\ UNCHANGED <<userDocB, earnQueue, exhaustedAtB, boostVars, flushVars, gridVars, serviceVars>>

\* the same, when the read of the user document in calculateOfflineEarnings
\* throws or finds no user
loadOfflineEarningsReadFails ==
  /\ earnQueue = <<>>
  /\ StartSession(Earner)
  /\ sessionB' = mountedSession(NoEarnings, getPropertiesByOwner(Earner), now)
  /\ freeRunB' = 0
  /\ firstGrantAtB' = 0
  /\ autoSave' = Armed(now, now, 0)
  /\ UNCHANGED <<userDocB, earnQueue, exhaustedAtB, boostVars, flushVars, gridVars, serviceVars>>

\* a save that saveCurrentEarnings starts: updateUserEarnings(userId, earnings)
\* builds its write, with the timestamp, when it is called
EarningsWrite(earnings, t) == [usdEarnings |-> earnings, lastEarningsUpdate |-> t]

\* the 100 ms interval of the money counter changes the displayed total; the
\* cleanup of the effect on [displayEarnings, userId] that saves on unmount
\* runs and saves the total displayed until then
\* (a change of displayEarnings also runs the effect that sets the auto-save
\* interval anew)
displayTotal(t) ==
  sessionB.baseEarnings + sessionB.earningsRate * Seconds(t - sessionB.sessionStart)

setDisplayEarnings(t) ==
  LET total == displayTotal(t)
      changed == total # sessionB.displayEarnings
  IN /\ sessionB' = [sessionB EXCEPT !.displayEarnings = total]
     /\ earnQueue' = IF changed /\ sessionB.displayEarnings > 0
                     THEN Append(earnQueue,
                                 EarningsWrite(sessionB.displayEarnings, t))
                     ELSE earnQueue
     /\ autoSave' = IF changed THEN Armed(autoSave.mountedAt, t, autoSave.fired)
                    ELSE autoSave

displayInterval ==
  /\ Len(earnQueue) < MaxEarnQueue
  /\ displayTotal(now) # sessionB.displayEarnings
  /\ setDisplayEarnings(now)
  /\ UNCHANGED <<userDocB, freeRunB, firstGrantAtB, exhaustedAtB, mapVars, boostVars,
                 flushVars, gridVars, serviceVars>>

DISPLAY_MS == 100
AUTO_SAVE_MS == 5 * 60 * 1000
MaxSessionTicks == 3010

\* 100 ms pass and the interval of the money counter fires; an auto-save
\* interval that is due fires before more time passes, and the store has
\* answered the saves of the tick before
displayIntervalFires ==
  /\ earnQueue = <<>>
  /\ now < autoSave.mountedAt + MaxSessionTicks * DISPLAY_MS
  /\ now < autoSave.armedAt + AUTO_SAVE_MS
  /\ now' = now + DISPLAY_MS
  /\ setDisplayEarnings(now + DISPLAY_MS)
  /\ UNCHANGED <<boostState, userDoc, timerResetAt, resetExpiresAt, writeQueue,
                 paidGranted, freeRun, firstGrantAt, loadedDoc>>
  /\ UNCHANGED <<userDocB, freeRunB, firstGrantAtB, exhaustedAtB, mapVars,
                 flushVars, gridVars, serviceVars>>

\* the auto-save interval fires, 5 minutes after it was set
autoSaveFires ==
  /\ now >= autoSave.armedAt + AUTO_SAVE_MS
  /\ Len(earnQueue) < MaxEarnQueue
  /\ earnQueue' = IF sessionB.displayEarnings > 0
                  THEN Append(earnQueue, EarningsWrite(sessionB.displayEarnings, now))
                  ELSE earnQueue
  /\ autoSave' = Armed(autoSave.mountedAt, now, autoSave.fired + 1)
  /\ UNCHANGED <<userDocB, sessionB, freeRunB, firstGrantAtB, exhaustedAtB, mapVars,
                 boostVars, flushVars, gridVars, serviceVars>>

\* the app goes to the background: saveCurrentEarnings
saveCurrentEarnings ==
  /\ Len(earnQueue) < MaxEarnQueue
  /\ sessionB.displayEarnings > 0
  /\ earnQueue' = Append(earnQueue, EarningsWrite(sessionB.displayEarnings, now))
  /\ UNCHANGED <<userDocB, sessionB, freeRunB, firstGrantAtB, exhaustedAtB, mapVars, boostVars,
                 flushVars, gridVars, serviceVars, autoSave>>

\* updateDoc(userRef, {usdEarnings: earnings, lastEarningsUpdate: ...})
updateUserEarnings(userData, w) ==
  [userData EXCEPT !.usdEarnings = w.usdEarnings,
                   !.lastEarningsUpdate = w.lastEarningsUpdate]

\* the store applies the oldest save; saveCurrentEarnings resumes
saveCurrentEarningsSaved ==
  /\ earnQueue # <<>>
  /\ userDocB' = updateUserEarnings(userDocB, Head(earnQueue))
  /\ sessionB' = [sessionB EXCEPT !.baseEarnings = Head(earnQueue).usdEarnings,
                                  !.sessionStart = now]
  /\ earnQueue' = Tail(earnQueue)
  /\ UNCHANGED <<freeRunB, firstGrantAtB, exhaustedAtB, mapVars, boostVars, flushVars, gridVars, serviceVars, autoSave>>

\* the store rejects the oldest save
saveCurrentEarningsFails ==
  /\ earnQueue # <<>>
  /\ earnQueue' = Tail(earnQueue)
  /\ UNCHANGED <<userDocB, sessionB, freeRunB, firstGrantAtB, exhaustedAtB, mapVars, boostVars,
                 flushVars, gridVars, serviceVars, autoSave>>

\* purchaseProperty of the second service: getDoc finds no document
purchasePropertyGetDocB ==
  /\ \E i \in 1..Len(calls) :
       /\ calls[i].op = "purchase" /\ calls[i].pc = "getDoc"
       /\ properties[calls[i].id] = NoOwner
       /\ calls' = SetPc(calls, i, "calculateOfflineEarnings")
  /\ UNCHANGED <<storeVars, sessionVars, today, nonMapVars>>

\* purchaseProperty: calculateOfflineEarnings(userId)
purchasePropertyCalculateOfflineEarnings ==
  /\ \E i \in 1..Len(calls) :
       /\ calls[i].op = "purchase" /\ calls[i].pc = "calculateOfflineEarnings"
       /\ calls' = [calls EXCEPT
                      ![i].earnings = calculateOfflineEarnings(userDocB,
                                        getPropertiesByOwner(calls[i].user),
                                        now).totalEarnings,
                      ![i].pc = "updateUserEarnings"]
  /\ UNCHANGED <<storeVars, sessionVars, today, nonMapVars>>

\* purchaseProperty: calculateOfflineEarnings catches a failed read
purchasePropertyCalculateReadFails ==
  /\ \E i \in 1..Len(calls) :
       /\ calls[i].op = "purchase" /\ calls[i].pc = "calculateOfflineEarnings"
       /\ calls' = [calls EXCEPT ![i].earnings = NoEarnings.totalEarnings,
                                 ![i].pc = "updateUserEarnings"]
  /\ UNCHANGED <<storeVars, sessionVars, today, nonMapVars>>

\* purchaseProperty: updateUserEarnings(userId, earningsData.totalEarnings)
purchasePropertyUpdateUserEarnings ==
  /\ \E i \in 1..Len(calls) :
       /\ calls[i].op = "purchase" /\ calls[i].pc = "updateUserEarnings"
       /\ userDocB' = updateUserEarnings(userDocB,
                                         EarningsWrite(calls[i].earnings, now))
       /\ calls' = SetPc(calls, i, "setDoc")
  /\ UNCHANGED <<storeVars, sessionVars, today, sessionB, earnQueue, freeRunB,
                 firstGrantAtB, exhaustedAtB, boostVars, flushVars, gridVars, serviceVars, autoSave>>

\* updateUserBalance(userId, -tbCost) and the session after the purchase;
\* the effect on [ownedProperties, isBoostActive] recomputes the rate
purchasePropertyUpdateUserBalanceB ==
  /\ \E i \in 1..Len(calls) :
       /\ PurchaseDebited(i)
       /\ sessionB' = [sessionB EXCEPT
                         !.earningsRate =
                            calculateEarningsRate(
                              ownedProperties[calls[i].user]
                                \cup {Property(calls[i].id, calls[i].mineType)},
                              sessionB.isBoostActive)]
  /\ UNCHANGED <<userDocB, earnQueue, freeRunB, firstGrantAtB, exhaustedAtB, boostVars,
                 flushVars, gridVars, serviceVars, autoSave>>

\* handleActivateFreeBoost, refused: no free boosts remaining
handleActivateFreeBoostNone ==
  /\ sessionB.freeBoostsRemaining <= 0
  /\ UNCHANGED <<bVars, mapVars, boostVars, flushVars, gridVars, serviceVars>>

\* the time at which the stored quota reached 0, after a step at time t that
\* took the user document from before to after
ExhaustedAfter(before, after, t) ==
  IF after.freeBoostsRemaining > 0 THEN Null
  ELSE IF before.freeBoostsRemaining > 0
          \/ after.lastBoostReset # before.lastBoostReset THEN t
  ELSE exhaustedAtB

\* the free grants made back to back from a fresh account, after a grant
RunAfterGrantB(isFree, before) ==
  IF ~isFree THEN 0
  ELSE IF before.freeBoostsRemaining = 4 /\ before.boostEndTime = Null THEN 1
  ELSE IF freeRunB > 0 THEN freeRunB + 1
  ELSE 0

\* a boost is granted: activateBoost succeeds, then loadBoostStatus
BoostGranted(isFree) ==
  LET r == activateBoost(userDocB, now, isFree)
      reset == checkAndResetBoosts(userDocB, now) # userDocB
      run == IF reset THEN 0 ELSE RunAfterGrantB(isFree, userDocB)
  IN /\ r.success
     /\ userDocB' = r.doc
     /\ sessionB' = withBoostStatus(sessionB, r.doc, now, ownedProperties[Earner])
     /\ freeRunB' = run
     /\ firstGrantAtB' = IF run = 0 THEN 0 ELSE IF run = 1 THEN now ELSE firstGrantAtB
     /\ exhaustedAtB' = ExhaustedAfter(userDocB, r.doc, now)
     /\ UNCHANGED <<earnQueue, mapVars, boostVars, flushVars, gridVars, serviceVars, autoSave>>

\* activateBoost answers success: false; the document may have been reset
BoostRefused(isFree) ==
  LET r == activateBoost(userDocB, now, isFree)
  IN /\ ~r.success
     /\ userDocB' = r.doc
     /\ freeRunB' = IF r.doc # userDocB THEN 0 ELSE freeRunB
     /\ firstGrantAtB' = IF r.doc # userDocB THEN 0 ELSE firstGrantAtB
     /\ exhaustedAtB' = ExhaustedAfter(userDocB, r.doc, now)
     /\ UNCHANGED <<sessionB, earnQueue, mapVars, boostVars, flushVars, gridVars, serviceVars, autoSave>>

handleActivateFreeBoost ==
  /\ ~(sessionB.freeBoostsRemaining <= 0)
  /\ BoostGranted(TRUE)

handleActivateFreeBoostFailed ==
  /\ ~(sessionB.freeBoostsRemaining <= 0)
  /\ BoostRefused(TRUE)

handleAdReward == BoostGranted(FALSE)

handleAdRewardFailed == BoostRefused(FALSE)

\* two sessions of one user; a session with no call of activateBoost under way
Sessions == {"s1", "s2"}
Idle == [pc |-> "idle", userData |-> createUserB(0), at |-> 0]

\* activateBoost(userId, true) called by one of two sessions of the user, up
\* to its updateDoc: checkAndResetBoosts (which writes the replenishment when
\* it is due), then the two tests on what was read
activateBoostRead(s) ==
  LET userData == checkAndResetBoosts(userDocB, now)
  IN /\ activations[s].pc = "idle"
     /\ activateBoost(userData, now, TRUE).success
     /\ userDocB' = userData
     /\ freeGranted' = IF userData # userDocB THEN 0 ELSE freeGranted
     /\ activations' = [activations EXCEPT
                          ![s] = [pc |-> "updateDoc", userData |-> userData, at |-> now]]
     /\ UNCHANGED <<sessionB, earnQueue, freeRunB, firstGrantAtB, exhaustedAtB, autoSave>>
     /\ UNCHANGED <<mapVars, boostVars, flushVars, gridVars, adVars, locVars>>

\* the same call answering success: false
activateBoostReadRefused(s) ==
  LET userData == checkAndResetBoosts(userDocB, now)
  IN /\ activations[s].pc = "idle"
     /\ ~activateBoost(userData, now, TRUE).success
     /\ userDocB' = userData
     /\ freeGranted' = IF userData # userDocB THEN 0 ELSE freeGranted
     /\ UNCHANGED <<activations, sessionB, earnQueue, freeRunB, firstGrantAtB,
                    exhaustedAtB, autoSave>>
     /\ UNCHANGED <<mapVars, boostVars, flushVars, gridVars, adVars, locVars>>

\* updateDoc(userRef, {boostEndTime, freeBoostsRemaining: userData.freeBoostsRemaining - 1}),
\* computed from what the call read; the call answers success: true
activateBoostUpdateDoc(s) ==
  LET a == activations[s]
      r == activateBoost(a.userData, a.at, TRUE)
  IN /\ a.pc = "updateDoc"
     /\ userDocB' = [userDocB EXCEPT
                       !.boostEndTime = r.doc.boostEndTime,
                       !.freeBoostsRemaining = r.doc.freeBoostsRemaining]
     /\ freeGranted' = freeGranted + 1
     /\ activations' = [activations EXCEPT ![s] = Idle]
     /\ UNCHANGED <<sessionB, earnQueue, freeRunB, firstGrantAtB, exhaustedAtB, autoSave>>
     /\ UNCHANGED <<mapVars, boostVars, flushVars, gridVars, adVars, locVars>>

\* time passes while no call of activateBoost is under way
twoSessionsTick ==
  /\ \A s \in Sessions : activations[s].pc = "idle"
  /\ Tick

\* the 1 s interval: getBoostStatus (which resets the free boosts when due)
updateBoostStatus ==
  LET doc == checkAndResetBoosts(userDocB, now)
  IN /\ userDocB' = doc
     /\ sessionB' = withBoostStatus(sessionB, doc, now, ownedProperties[Earner])
     /\ freeRunB' = IF doc # userDocB THEN 0 ELSE freeRunB
     /\ firstGrantAtB' = IF doc # userDocB THEN 0 ELSE firstGrantAtB
     /\ exhaustedAtB' = ExhaustedAfter(userDocB, doc, now)
     /\ UNCHANGED <<earnQueue, mapVars, boostVars, flushVars, gridVars, serviceVars, autoSave>>

----------------------------------------------------------------------------
(* The earnings flush of MainNavigator (first variant) *)

MaxFlushes == 3
\* the amounts a flush is called with: nothing, and a rock mine's rent of
\* 5 and of 30 minutes
UsdAmounts == {0, 11 * 300, 11 * 1800}

\* updateDoc(userRef, {usdEarnings: increment(amount)})
updateUSDEarnings(stored, amount) == stored + amount

handleEarningsUpdate ==
  /\ flushCount < MaxFlushes
  /\ \E usdAmount \in UsdAmounts :
       /\ storedUsdEarnings' = updateUSDEarnings(storedUsdEarnings, usdAmount)
       /\ usdEarnings' = usdEarnings + usdAmount
       /\ lastFlush' = [amount |-> usdAmount, at |-> now]
  /\ flushCount' = flushCount + 1
  /\ UNCHANGED <<mapVars, boostVars, bVars, gridVars, serviceVars>>

\* updateUSDEarnings rejects: handleEarningsUpdate throws
handleEarningsUpdateFails ==
  /\ UNCHANGED <<flushVars, mapVars, boostVars, bVars, gridVars, serviceVars>>

\* loadUserData: setUsdEarnings(userData?.usdEarnings || 0)
loadUserDataEarnings ==
  /\ usdEarnings' = JsOr(storedUsdEarnings, 0)
  /\ UNCHANGED <<storedUsdEarnings, flushCount, lastFlush, mapVars, boostVars,
                 bVars, gridVars, serviceVars>>

----------------------------------------------------------------------------
(* Grid addressing.  Latitudes and longitudes are integers in units of     *)
(* 1e-5 degrees, a grid square is GRID_SIZE = 10 units wide, radii are in   *)
(* metres.                                                                  *)

GRID_SIZE == 10
MAX_GRID_SQUARES == 500
MAX_RADIUS == 150
METERS_PER_SQUARE == 10
MAX_LATITUDE == 90 * 100000
MAX_LONGITUDE == 180 * 100000

\* the centres and radii getVisibleGridSquares is called with
Latitudes == {-9000001, -254, 0, 4071280, 9000000}
Longitudes == {-18000001, -7400601, 5, 18000000}
Radii == {0, 5, 10, 95, 100, 101, 150, 500}

\* a grid index that rounds towards zero
latLngToGridIdTruncated(latitude, longitude) ==
  LET trunc(a) == IF a < 0 THEN -((-a) \div GRID_SIZE) ELSE a \div GRID_SIZE
  IN <<trunc(latitude), trunc(longitude)>>

\* latLngToGridId: Math.floor(latitude / GRID_SIZE), Math.floor(longitude / GRID_SIZE)
latLngToGridId(latitude, longitude) == <<latitude \div GRID_SIZE, longitude \div GRID_SIZE>>

\* Math.ceil(a / b) for b > 0
Ceil(a, b) == -((-a) \div b)

\* Math.floor(Math.sqrt(n) / 2): the largest k with 2k <= sqrt(n)
FloorHalfSqrt(n) == CHOOSE k \in 0..n : 4 * k * k <= n /\ 4 * (k + 1) * (k + 1) > n

\* the ids pushed by the two nested loops over [x - range, x + range] and
\* [y - range, y + range]; no id is pushed twice, so the list is as long as
\* this set is big
SquareAround(centerX, centerY, range) ==
  {<<x, y>> : x \in (centerX - range)..(centerX + range),
              y \in (centerY - range)..(centerY + range)}

\* Infinity and -Infinity, as numbers beyond every coordinate and radius
PositiveInfinity == 100 * MAX_LONGITUDE
NegativeInfinity == -PositiveInfinity

\* isFinite(x)
isFinite(x) == x \notin {NaN, PositiveInfinity, NegativeInfinity}

\* a validation that also turns away the poles and the date line
getVisibleGridSquaresOpenRange(centerLat, centerLng, radiusInMeters) ==
  IF ~isFinite(centerLat) \/ ~isFinite(centerLng) \/ ~isFinite(radiusInMeters)
  THEN {}
  ELSE IF Abs(centerLat) >= MAX_LATITUDE \/ Abs(centerLng) >= MAX_LONGITUDE
  THEN {}
  ELSE LET range == Ceil(Min(radiusInMeters, MAX_RADIUS), METERS_PER_SQUARE)
           center == latLngToGridId(centerLat, centerLng)
       IN IF (2 * range + 1) * (2 * range + 1) > MAX_GRID_SQUARES
          THEN SquareAround(center[1], center[2], FloorHalfSqrt(MAX_GRID_SQUARES))
          ELSE SquareAround(center[1], center[2], range)

getVisibleGridSquares(centerLat, centerLng, radiusInMeters) ==
  IF ~isFinite(centerLat) \/ ~isFinite(centerLng) \/ ~isFinite(radiusInMeters)
  THEN {}
  ELSE IF Abs(centerLat) > MAX_LATITUDE \/ Abs(centerLng) > MAX_LONGITUDE
  THEN {}
  ELSE LET effectiveRadius == Min(radiusInMeters, MAX_RADIUS)
           range == Ceil(effectiveRadius, METERS_PER_SQUARE)
           center == latLngToGridId(centerLat, centerLng)
           totalSquares == (2 * range + 1) * (2 * range + 1)
       IN IF totalSquares > MAX_GRID_SQUARES
          THEN SquareAround(center[1], center[2], FloorHalfSqrt(MAX_GRID_SQUARES))
          ELSE SquareAround(center[1], center[2], range)

\* the same call with an argument that is not a finite number
NonFinite == {NaN, PositiveInfinity, NegativeInfinity}

callGetVisibleGridSquaresNonFinite ==
  /\ \E lat \in Latitudes \cup NonFinite, lng \in Longitudes \cup NonFinite,
        radius \in Radii \cup NonFinite :
       /\ lat \in NonFinite \/ lng \in NonFinite \/ radius \in NonFinite
       /\ gridArgs' = [centerLat |-> lat, centerLng |-> lng, radiusInMeters |-> radius]
       /\ gridIds' = getVisibleGridSquares(lat, lng, radius)
  /\ UNCHANGED <<mapVars, boostVars, bVars, flushVars, serviceVars>>

\* the characters of the decimal digits
DigitChars == <<"0", "1", "2", "3", "4", "5", "6", "7", "8", "9">>

\* String(n) for an integer n, as a sequence of characters
RECURSIVE NumberToString(_)
NumberToString(n) ==
  IF n < 0 THEN <<"-">> \o NumberToString(-n)
  ELSE IF n < 10 THEN <<DigitChars[n + 1]>>
  ELSE NumberToString(n \div 10) \o <<DigitChars[(n % 10) + 1]>>

\* the template `${x}_${y}` of latLngToGridId
gridIdString(id) == NumberToString(id[1]) \o <<"_">> \o NumberToString(id[2])

\* s.split(sep) for a one-character separator
RECURSIVE Split(_, _)
Split(s, sep) ==
  IF \A i \in 1..Len(s) : s[i] # sep THEN <<s>>
  ELSE LET k == CHOOSE i \in 1..Len(s) : s[i] = sep /\ \A j \in 1..(i - 1) : s[j] # sep
       IN <<SubSeq(s, 1, k - 1)>> \o Split(SubSeq(s, k + 1, Len(s)), sep)

\* Number(s) for a string of digits with an optional sign: "" is 0, and
\* anything else is NaN
RECURSIVE DigitsToNumber(_)
DigitsToNumber(s) ==
  IF s = <<>> THEN 0
  ELSE LET d == CHOOSE k \in 0..9 : DigitChars[k + 1] = s[Len(s)]
       IN 10 * DigitsToNumber(SubSeq(s, 1, Len(s) - 1)) + d

IsDigits(s) == \A i \in 1..Len(s) : \E k \in 1..10 : DigitChars[k] = s[i]

Number(s) ==
  IF IsDigits(s) THEN DigitsToNumber(s)
  ELSE IF Head(s) = "-" /\ Len(s) > 1 /\ IsDigits(Tail(s)) THEN -DigitsToNumber(Tail(s))
  ELSE NaN

\* gridToLatLng: the centre (gridX + 0.5) * GRID_SIZE, (gridY + 0.5) * GRID_SIZE
gridToLatLng(gridX, gridY) ==
  [latitude |-> gridX * GRID_SIZE + GRID_SIZE \div 2,
   longitude |-> gridY * GRID_SIZE + GRID_SIZE \div 2]

\* generateGridSquare: the id of the point's cell, and the centre and the
\* corners computed from the indices parsed out of the id
generateGridSquare(latitude, longitude) ==
  LET id == gridIdString(latLngToGridId(latitude, longitude))
      parts == Split(id, "_")
      x == Number(parts[1])
      y == Number(parts[2])
  IN [id |-> id,
      centerLat |-> x * GRID_SIZE + GRID_SIZE \div 2,
      centerLng |-> y * GRID_SIZE + GRID_SIZE \div 2,
      corners |-> <<[latitude |-> x * GRID_SIZE, longitude |-> y * GRID_SIZE],
                    [latitude |-> (x + 1) * GRID_SIZE, longitude |-> y * GRID_SIZE],
                    [latitude |-> (x + 1) * GRID_SIZE, longitude |-> (y + 1) * GRID_SIZE],
                    [latitude |-> x * GRID_SIZE, longitude |-> (y + 1) * GRID_SIZE]>>,
      isOwned |-> FALSE]

\* isWithinGridSquare(lat, lng, square): the ids are compared as strings
isWithinGridSquareAt(lat, lng, square) ==
  gridIdString(latLngToGridId(lat, lng)) = square.id

\* the points and the cells the grid functions are called with
PointLatitudes == {-407125, -25, -20, -11, -10, -1, 0, 9, 10, 15, 407128}
PointLongitudes == {-740061, -105, -100, -10, -5, 0, 5, 99, 100, 740060}
GridIndices == {-74006, -11, -10, -1, 0, 1, 9, 10, 40712}

\* a call of generateGridSquare, with the test of the point against the
\* square it got
callGenerateGridSquare ==
  /\ \E lat \in PointLatitudes, lng \in PointLongitudes :
       /\ gridArgs' = [op |-> "generateGridSquare", latitude |-> lat, longitude |-> lng]
       /\ gridIds' = [square |-> generateGridSquare(lat, lng),
                      within |-> isWithinGridSquareAt(lat, lng, generateGridSquare(lat, lng))]
  /\ UNCHANGED <<mapVars, boostVars, bVars, flushVars, serviceVars>>

\* a call of gridToLatLng, and the id of the centre it returned
callGridToLatLng ==
  /\ \E gridX \in GridIndices, gridY \in GridIndices :
       LET center == gridToLatLng(gridX, gridY)
       IN /\ gridArgs' = [op |-> "gridToLatLng", gridX |-> gridX, gridY |-> gridY]
          /\ gridIds' = [center |-> center,
                         id |-> gridIdString(latLngToGridId(center.latitude,
                                                            center.longitude))]
  /\ UNCHANGED <<mapVars, boostVars, bVars, flushVars, serviceVars>>

\* loadNearbyProperties and the tests call getVisibleGridSquares
callGetVisibleGridSquares ==
  /\ \E lat \in Latitudes, lng \in Longitudes, radius \in Radii :
       /\ gridArgs' = [centerLat |-> lat, centerLng |-> lng, radiusInMeters |-> radius]
       /\ gridIds' = getVisibleGridSquares(lat, lng, radius)
  /\ UNCHANGED <<mapVars, boostVars, bVars, flushVars, serviceVars>>

----------------------------------------------------------------------------
(* The location watch *)

\* the coordinates the watch reports, in the units of the grid
WatchLatitudes == Latitudes \cup {-MAX_LATITUDE, MAX_LATITUDE + 1} \cup NonFinite
WatchLongitudes == Longitudes \cup {-MAX_LONGITUDE, MAX_LONGITUDE + 1} \cup NonFinite

\* no call of the callback yet
NoCallback == [latitude |-> NaN, longitude |-> NaN]

\* the test of the watch callback on the coordinates of an update
validCoords(coords) ==
  /\ isFinite(coords.latitude)
  /\ isFinite(coords.longitude)
  /\ Abs(coords.latitude) <= MAX_LATITUDE
  /\ Abs(coords.longitude) <= MAX_LONGITUDE

locFrame == UNCHANGED <<boostVars, mapVars, bVars, flushVars, gridVars, adVars, twoVars>>

\* initializeLocation calls startWatchingLocation, which awaits
\* requestPermissions; the call is not awaited
startWatchingLocation ==
  /\ watchPc = "idle"
  /\ ~stopped
  /\ watchPc' = "permission"
  /\ UNCHANGED <<watchSubscription, osWatching, stopped, lastCallback, callbackAfterStop>>
  /\ locFrame

\* requestPermissions answers false: startWatchingLocation returns
requestPermissionsDenied ==
  /\ watchPc = "permission"
  /\ watchPc' = "done"
  /\ UNCHANGED <<watchSubscription, osWatching, stopped, lastCallback, callbackAfterStop>>
  /\ locFrame

\* requestPermissions answers true: Location.watchPositionAsync is called
\* and registers the watch; startWatchingLocation awaits the subscription
watchPositionAsync ==
  /\ watchPc = "permission"
  /\ watchPc' = "subscription"
  /\ osWatching' = TRUE
  /\ UNCHANGED <<watchSubscription, stopped, lastCallback, callbackAfterStop>>
  /\ locFrame

\* the subscription arrives: this.watchSubscription = subscription
watchSubscriptionAssigned ==
  /\ watchPc = "subscription"
  /\ watchPc' = "done"
  /\ watchSubscription' = TRUE
  /\ UNCHANGED <<osWatching, stopped, lastCallback, callbackAfterStop>>
  /\ locFrame

\* the watch delivers an update: the callback is called when the
\* coordinates pass the test
locationUpdate ==
  /\ osWatching
  /\ \E lat \in WatchLatitudes, lng \in WatchLongitudes :
       LET coords == [latitude |-> lat, longitude |-> lng]
       IN IF validCoords(coords)
          THEN /\ lastCallback' = coords
               /\ callbackAfterStop' = (callbackAfterStop \/ stopped)
          ELSE UNCHANGED <<lastCallback, callbackAfterStop>>
  /\ UNCHANGED <<watchPc, watchSubscription, osWatching, stopped>>
  /\ locFrame

\* the cleanup of the mount effect of MapScreen
stopWatchingLocation ==
  /\ IF watchSubscription
     THEN osWatching' = FALSE /\ watchSubscription' = FALSE
     ELSE UNCHANGED <<osWatching, watchSubscription>>
  /\ stopped' = TRUE
  /\ UNCHANGED <<watchPc, lastCallback, callbackAfterStop>>
  /\ locFrame

----------------------------------------------------------------------------
(* Initial states and next-state relations *)

\* the sessions as loadUserData and the mount of MapScreen leave them
SessionsLoaded ==
  /\ userTB = [u \in Users |-> loadedTB(tbBalance[u])]
  /\ stats = [u \in Users |-> [totalCheckIns |-> totalCheckIns[u], totalTBEarned |-> 0]]
  /\ ownedProperties = [u \in Users |-> getPropertiesByOwner(u)]
  /\ allProperties = [u \in Users |-> properties]
  /\ gridSquares = [u \in Users |-> properties]
  /\ selectedSquare = [u \in Users |-> NoSquare]
  /\ userLocation = [u \in Users |-> <<0, 0>>]
  /\ showCheckInModal = [u \in Users |-> FALSE]
  /\ lastCheckIns = [u \in Users |-> [c \in GridIds |-> Null]]
  /\ calls = <<>>
  /\ today = 0

\* no cell of GridIds is owned yet
PurchaseInit ==
  /\ properties = [c \in GridIds |-> NoOwner]
  /\ mineTypes = [c \in GridIds |-> NoMine]
  /\ \E b \in InitialBalances :
       tbBalance = [u \in Users |-> IF u \in Buyers THEN b ELSE STARTING_TB]
  /\ totalCheckIns = [u \in Users |-> 0]
  /\ checkIns = <<>>
  /\ purchasedAt = [c \in GridIds |-> IF properties[c] = NoOwner THEN Null ELSE 0]
  /\ SessionsLoaded

\* two new accounts
RaceInit ==
  /\ properties = [c \in GridIds |-> NoOwner]
  /\ mineTypes = [c \in GridIds |-> NoMine]
  /\ tbBalance = [u \in Users |-> STARTING_TB]
  /\ totalCheckIns = [u \in Users |-> 0]
  /\ checkIns = <<>>
  /\ purchasedAt = [c \in GridIds |-> IF properties[c] = NoOwner THEN Null ELSE 0]
  /\ SessionsLoaded

\* each user has bought one cell with a new account
CheckInInit ==
  /\ properties = [c \in GridIds |-> IF c = <<0, 0>> THEN "u2" ELSE "u1"]
  /\ mineTypes = [c \in GridIds |-> "rock"]
  /\ tbBalance = [u \in Users |-> STARTING_TB - PROPERTY_COST]
  /\ totalCheckIns = [u \in Users |-> 0]
  /\ checkIns = <<>>
  /\ purchasedAt = [c \in GridIds |-> IF properties[c] = NoOwner THEN Null ELSE 0]
  /\ SessionsLoaded

BoostInit ==
  /\ now = 0
  /\ userDoc = createUser
  /\ \E ad \in InitialAdBoostsUsed :
       LET s == Mount(createUser, ad, 0)
       IN /\ boostState = s.b
          /\ writeQueue = s.q
          /\ timerResetAt = s.c1
          /\ resetExpiresAt = s.c2
  /\ paidGranted = 0
  /\ freeRun = 0
  /\ firstGrantAt = 0
  /\ loadedDoc = Loaded(createUser, 0)

\* the boost state of the session MainNavigator starts for a new account
BoostIdle ==
  /\ now = 0
  /\ userDoc = createUser
  /\ LET s == Mount(createUser, Undefined, 0)
     IN /\ boostState = s.b
        /\ writeQueue = s.q
        /\ timerResetAt = s.c1
        /\ resetExpiresAt = s.c2
  /\ paidGranted = 0
  /\ freeRun = 0
  /\ firstGrantAt = 0
  /\ loadedDoc = Loaded(createUser, 0)

\* the Earner has bought one cell with a new account; the other is free
EarnMapInit ==
  /\ properties = [c \in GridIds |-> IF c = <<0, 0>> THEN NoOwner ELSE Earner]
  /\ mineTypes = [c \in GridIds |-> IF c = <<0, 0>> THEN NoMine ELSE "rock"]
  /\ tbBalance = [u \in Users |-> STARTING_TB - PROPERTY_COST]
  /\ totalCheckIns = [u \in Users |-> 0]
  /\ checkIns = <<>>
  /\ purchasedAt = [c \in GridIds |-> IF properties[c] = NoOwner THEN Null ELSE 0]
  /\ SessionsLoaded

\* the account of the second service just created, its session just mounted
EarnInit ==
  /\ userDocB = createUserB(0)
  /\ sessionB = mountedSession(NoEarnings, getPropertiesByOwner(Earner), 0)
  /\ earnQueue = <<>>
  /\ freeRunB = 0
  /\ firstGrantAtB = 0
  /\ exhaustedAtB = Null
  /\ autoSave = Armed(0, 0, 0)

\* a session just mounted on an account that owns a rock mine or nothing and
\* has earned something or nothing
AutoSaveMapInit ==
  /\ \E owner \in {NoOwner, Earner} :
       /\ properties = [c \in GridIds |-> IF c = <<0, 0>> THEN NoOwner ELSE owner]
       /\ mineTypes = [c \in GridIds |-> IF c = <<0, 0>> \/ owner = NoOwner
                                         THEN NoMine ELSE "rock"]
  /\ tbBalance = [u \in Users |-> STARTING_TB]
  /\ totalCheckIns = [u \in Users |-> 0]
  /\ checkIns = <<>>
  /\ purchasedAt = [c \in GridIds |-> IF properties[c] = NoOwner THEN Null ELSE 0]
  /\ SessionsLoaded

AutoSaveInit ==
  /\ \E usd \in {0, 3300} : userDocB = [createUserB(0) EXCEPT !.usdEarnings = usd]
  /\ sessionB = mountedSession(
                  calculateOfflineEarnings(userDocB, getPropertiesByOwner(Earner), 0),
                  getPropertiesByOwner(Earner), 0)
  /\ earnQueue = <<>>
  /\ freeRunB = 0
  /\ firstGrantAtB = 0
  /\ exhaustedAtB = Null
  /\ autoSave = Armed(0, 0, 0)

\* no ad was shown yet
AdInit ==
  /\ adShowing = FALSE
  /\ earnedListeners = <<>>

\* neither session has a call of activateBoost under way
TwoInit ==
  /\ activations = [s \in Sessions |-> Idle]
  /\ freeGranted = 0

\* LocationService as constructed: startWatchingLocation not called yet
LocationInit ==
  /\ watchPc = "idle"
  /\ watchSubscription = FALSE
  /\ osWatching = FALSE
  /\ stopped = FALSE
  /\ lastCallback = NoCallback
  /\ callbackAfterStop = FALSE

ServiceInit == AdInit /\ TwoInit /\ LocationInit

FlushInit ==
  /\ storedUsdEarnings = 0
  /\ usdEarnings = 0
  /\ flushCount = 0
  /\ lastFlush = [amount |-> Null, at |-> Null]

GridInit ==
  /\ gridArgs = [centerLat |-> 0, centerLng |-> 0, radiusInMeters |-> 0]
  /\ gridIds = getVisibleGridSquares(0, 0, 0)

\* getVisibleGridSquares was called once
GridCalled ==
  \E lat \in Latitudes, lng \in Longitudes, radius \in Radii :
    /\ gridArgs = [centerLat |-> lat, centerLng |-> lng, radiusInMeters |-> radius]
    /\ gridIds = getVisibleGridSquares(lat, lng, radius)

Init == BoostInit /\ CheckInInit /\ EarnInit /\ FlushInit /\ ServiceInit /\ GridInit

InitPurchase == BoostIdle /\ PurchaseInit /\ EarnInit /\ FlushInit /\ ServiceInit /\ GridInit

InitRace == BoostIdle /\ RaceInit /\ EarnInit /\ FlushInit /\ ServiceInit /\ GridInit

InitCheckIn == BoostIdle /\ CheckInInit /\ EarnInit /\ FlushInit /\ ServiceInit /\ GridInit

\* a session just started on a persisted boost state
StartInit ==
  /\ now = StartTime
  /\ userDoc \in PersistedDocs
  /\ \E ad \in InitialAdBoostsUsed :
       LET s == Mount(userDoc, ad, now)
       IN /\ boostState = s.b
          /\ writeQueue = s.q
          /\ timerResetAt = s.c1
          /\ resetExpiresAt = s.c2
  /\ paidGranted = 0
  /\ freeRun = 0
  /\ firstGrantAt = 0
  /\ loadedDoc = Loaded(userDoc, now)

InitStart == StartInit /\ CheckInInit /\ EarnInit /\ FlushInit /\ ServiceInit /\ GridInit

\* the snapshots the offline catch-up is computed from: the Earner owns any
\* of the cells, with any mine on them; the user document holds any of a few
\* totals, snapshot times and boost ends; the session has just been started
OfflineInit ==
  /\ \E owned \in SUBSET GridIds, mt \in [GridIds -> MineTypes] :
       /\ properties = [c \in GridIds |-> IF c \in owned THEN Earner ELSE NoOwner]
       /\ mineTypes = [c \in GridIds |-> IF c \in owned THEN mt[c] ELSE NoMine]
  /\ tbBalance = [u \in Users |-> STARTING_TB]
  /\ totalCheckIns = [u \in Users |-> 0]
  /\ checkIns = <<>>
  /\ purchasedAt = [c \in GridIds |-> IF properties[c] = NoOwner THEN Null ELSE 0]
  /\ SessionsLoaded
  /\ \E usd \in {0, 3300}, last \in {0, 300000},
        boostEnd \in {Null, 30000, 1800000, 21600000} :
       userDocB = [createUserB(0) EXCEPT !.usdEarnings = usd,
                                         !.lastEarningsUpdate = last,
                                         !.boostEndTime = boostEnd]
  /\ sessionB = mountedSession(
                  calculateOfflineEarnings(userDocB, getPropertiesByOwner(Earner), 300000),
                  getPropertiesByOwner(Earner), 300000)
  /\ earnQueue = <<>>
  /\ freeRunB = 0
  /\ firstGrantAtB = 0
  /\ exhaustedAtB = Null
  /\ autoSave = Armed(300000, 300000, 0)

\* (the session of OfflineInit is started at the later of the snapshot times)
OfflineClock ==
  /\ now = 300000
  /\ userDoc = createUser
  /\ LET s == Mount(createUser, Undefined, 300000)
     IN /\ boostState = s.b
        /\ writeQueue = s.q
        /\ timerResetAt = s.c1
        /\ resetExpiresAt = s.c2
  /\ paidGranted = 0
  /\ freeRun = 0
  /\ firstGrantAt = 0
  /\ loadedDoc = Loaded(createUser, 0)

InitOffline == OfflineClock /\ OfflineInit /\ FlushInit /\ ServiceInit /\ GridInit

\* an account created at 0 on which nothing or one free boost was granted at
\* 0, opened again two seconds before that boost ends: the session after
\* loadOfflineEarnings and loadBoostStatus
RateStart == BOOST_MINUTES * MS_PER_MINUTE - 2 * MS_PER_SECOND

RateInit ==
  /\ \E doc \in {createUserB(0), activateBoost(createUserB(0), 0, TRUE).doc} :
       userDocB = doc
  /\ sessionB = withBoostStatus(
                  mountedSession(
                    calculateOfflineEarnings(userDocB, getPropertiesByOwner(Earner),
                                             RateStart),
                    getPropertiesByOwner(Earner), RateStart),
                  userDocB, RateStart, getPropertiesByOwner(Earner))
  /\ earnQueue = <<>>
  /\ freeRunB = 0
  /\ firstGrantAtB = 0
  /\ exhaustedAtB = Null
  /\ autoSave = Armed(RateStart, RateStart, 0)

RateClock ==
  /\ now = RateStart
  /\ userDoc = createUser
  /\ LET s == Mount(createUser, Undefined, RateStart)
     IN /\ boostState = s.b
        /\ writeQueue = s.q
        /\ timerResetAt = s.c1
        /\ resetExpiresAt = s.c2
  /\ paidGranted = 0
  /\ freeRun = 0
  /\ firstGrantAt = 0
  /\ loadedDoc = Loaded(createUser, 0)

InitRate == RateClock /\ AutoSaveMapInit /\ RateInit /\ FlushInit /\ ServiceInit /\ GridInit

InitAutoSave == BoostIdle /\ AutoSaveMapInit /\ AutoSaveInit /\ FlushInit /\ ServiceInit /\ GridInit

InitEarn == BoostIdle /\ EarnMapInit /\ EarnInit /\ FlushInit /\ ServiceInit /\ GridInit

InitBoostB == BoostIdle /\ EarnMapInit /\ EarnInit /\ FlushInit /\ ServiceInit /\ GridInit

InitFlush == BoostIdle /\ CheckInInit /\ EarnInit /\ FlushInit /\ ServiceInit /\ GridInit

InitGrid == BoostIdle /\ CheckInInit /\ EarnInit /\ FlushInit /\ ServiceInit /\ GridCalled

\* (the refusals that need twelve paid grants or 480 minutes of boost are
\* followed in SpecAds)
Next ==
  \/ handleFreeBoostNone
  \/ handleFreeBoost
  \/ handleAdBoost
  \/ updateBoostState
  \/ updateBoostStateFails
  \/ updateBoostTimerFires
  \/ checkResetTimerFires
  \/ Tick
  \/ loadUserData

Spec == Init /\ [][Next]_vars

\* Paid grants only, followed up to MaxPaidChain grants
NextAds ==
  \/ handleFreeBoostMax
  \/ handleAdBoostNone
  \/ handleAdBoostMax
  \/ handleAdBoostChain
  \/ updateBoostState
  \/ updateBoostTimerFires
  \/ Tick
  \/ loadUserData

SpecAds == Init /\ [][NextAds]_vars

\* one session in which every write reaches the store, and reaches it before
\* the next of the times followed: grants, the boost timer and the reset check
timersTick ==
  /\ writeQueue = <<>>
  /\ Tick

NextTimers ==
  \/ handleFreeBoostNone
  \/ handleFreeBoost
  \/ handleAdBoost
  \/ updateBoostState
  \/ updateBoostTimerFires
  \/ checkResetTimerFires
  \/ timersTick

SpecTimers == Init /\ [][NextTimers]_vars

\* rewarded ads that are closed with or without their reward, between free
\* grants and the ticks of the boost timer; an ad on the screen covers the
\* button of the free grant
adFreeBoost ==
  /\ ~adShowing
  /\ handleFreeBoost

NextAdEvents ==
  \/ handleWatchAd
  \/ adClosed
  \/ adEarnedReward
  \/ adFreeBoost
  \/ updateBoostState
  \/ updateBoostTimerFires
  \/ timersTick

SpecAdEvents == Init /\ [][NextAdEvents]_vars

\* Grants of both kinds with their refusals and with writes that fail
NextRefusals ==
  \/ handleFreeBoostNone
  \/ handleFreeBoostMax
  \/ handleFreeBoost
  \/ handleAdBoostNone
  \/ handleAdBoostMax
  \/ handleAdBoostChain
  \/ updateBoostState
  \/ updateBoostStateFails
  \/ Tick

SpecRefusals == Init /\ [][NextRefusals]_vars

\* Purchases of one user, with everything the session can do in between
NextPurchase ==
  \/ \E u \in Buyers : loadUserDataMap(u)
  \/ \E u \in Buyers : watchLocation(u)
  \/ \E u \in Buyers : handleSquarePress(u)
  \/ \E u \in Buyers : navigateToProperty(u)
  \/ \E u \in Buyers : handlePurchasePropertyRefused(u)
  \/ \E u \in Buyers : handlePurchaseProperty(u)
  \/ purchasePropertyAlreadyOwned
  \/ purchasePropertyGetDoc
  \/ purchasePropertySetDoc
  \/ purchasePropertyUpdateUserBalance
  \/ purchasePropertyRejects

SpecPurchase == InitPurchase /\ [][NextPurchase]_vars

\* Purchases of two users whose requests to the store interleave
NextRace ==
  \/ \E u \in Users : loadUserDataMap(u)
  \/ \E u \in Users : handleSquarePress(u)
  \/ \E u \in Users : handlePurchasePropertyRefused(u)
  \/ \E u \in Users : handlePurchaseProperty(u)
  \/ purchasePropertyAlreadyOwned
  \/ purchasePropertyGetDoc
  \/ purchasePropertySetDoc
  \/ purchasePropertyUpdateUserBalance
  \/ purchasePropertyRejects

SpecRace == InitRace /\ [][NextRace]_vars

\* Check-ins by one visitor
NextCheckIn ==
  \/ \E u \in Visitors : loadUserDataMap(u)
  \/ \E u \in Visitors : watchLocation(u)
  \/ \E u \in Visitors : handleSquarePress(u)
  \/ \E u \in Visitors : navigateToProperty(u)
  \/ \E u \in Visitors : handleCheckInRefused(u)
  \/ \E u \in Visitors : handleCheckIn(u)
  \/ \E u \in Visitors : cancelCheckIn(u)
  \/ \E u \in Visitors : submitCheckIn(u)
  \/ \E u \in Visitors : submitCheckInNoPhoto(u)
  \/ createCheckInSetDoc
  \/ createCheckInVisitorStats
  \/ createCheckInOwnerReward
  \/ handleCheckInUpdateUserBalance
  \/ checkInRejects
  \/ NextDay

SpecCheckIn == InitCheckIn /\ [][NextCheckIn]_vars

\* check-ins made through the second service
NextCheckInB ==
  \/ \E u \in Visitors : loadUserDataMap(u)
  \/ \E u \in Visitors : watchLocation(u)
  \/ \E u \in Visitors : handleSquarePress(u)
  \/ \E u \in Visitors : handleCheckInRefused(u)
  \/ \E u \in Visitors : handleCheckIn(u)
  \/ \E u \in Visitors : cancelCheckIn(u)
  \/ \E u \in Visitors : submitCheckIn(u)
  \/ \E u \in Visitors : submitCheckInNoPhoto(u)
  \/ createCheckInAddDocB
  \/ createCheckInOwnerQueryB
  \/ handleCheckInUpdateUserBalance
  \/ checkInRejects
  \/ NextDay

SpecCheckInB == InitCheckIn /\ [][NextCheckInB]_vars

\* the replenishment of the free grants followed through long boosts
NextReplenish ==
  \/ handleFreeBoostNone
  \/ handleFreeBoost
  \/ handleAdBoostReplenish
  \/ updateBoostState
  \/ updateBoostTimerFires
  \/ checkResetTimerFires
  \/ TickReplenish
  \/ loadUserData

SpecReplenish == Init /\ [][NextReplenish]_vars

\* session starts on persisted boost states, followed to the end of the
\* writes the start-up sends
NextStart ==
  \/ updateBoostState
  \/ loadUserDataStart
  \/ Tick

SpecStart == InitStart /\ [][NextStart]_vars

\* the offline catch-up, computed at session starts, and the boost status
\* read by the session
NextOffline ==
  \/ Tick
  \/ loadOfflineEarnings
  \/ updateBoostStatus

SpecOffline == InitOffline /\ [][NextOffline]_vars

\* a mounted session of the second variant with its two intervals
NextAutoSave ==
  \/ displayIntervalFires
  \/ autoSaveFires
  \/ saveCurrentEarningsSaved

SpecAutoSave == InitAutoSave /\ [][NextAutoSave]_vars

\* the money counter of the second variant, with purchases
NextEarn ==
  \/ TickEarn
  \/ loadOfflineEarnings
  \/ loadOfflineEarningsReadFails
  \/ displayInterval
  \/ saveCurrentEarnings
  \/ saveCurrentEarningsSaved
  \/ saveCurrentEarningsFails
  \/ handleSquarePress(Earner)
  \/ handlePurchaseProperty(Earner)
  \/ purchasePropertyGetDocB
  \/ purchasePropertyCalculateOfflineEarnings
  \/ purchasePropertyCalculateReadFails
  \/ purchasePropertyUpdateUserEarnings
  \/ purchasePropertySetDoc
  \/ purchasePropertyUpdateUserBalanceB
  \/ purchasePropertyRejects

SpecEarn == InitEarn /\ [][NextEarn]_vars

\* the first seconds of a session in which the rate changes: the money
\* counter ticks every 100 ms, and a cell is bought, a boost is granted or the
\* boost ends; the store answers a purchase within the tick
MaxRateTicks == 30
MaxRateGrants == 1

rateTick ==
  /\ now < RateStart + MaxRateTicks * DISPLAY_MS
  /\ calls = <<>>
  /\ displayIntervalFires

rateSquarePress ==
  /\ selectedSquare[Earner] = NoSquare
  /\ handleSquarePress(Earner)

rateFreeBoost ==
  /\ userDocB.freeBoostsRemaining > 4 - MaxRateGrants
  /\ handleActivateFreeBoost

NextRate ==
  \/ rateTick
  \/ saveCurrentEarningsSaved
  \/ rateFreeBoost
  \/ updateBoostStatus
  \/ rateSquarePress
  \/ handlePurchaseProperty(Earner)
  \/ purchasePropertyGetDocB
  \/ purchasePropertyCalculateOfflineEarnings
  \/ purchasePropertyUpdateUserEarnings
  \/ purchasePropertySetDoc
  \/ purchasePropertyUpdateUserBalanceB

SpecRate == InitRate /\ [][NextRate]_vars

\* the boost of the second variant
NextBoostB ==
  \/ Tick
  \/ loadOfflineEarnings
  \/ handleActivateFreeBoostNone
  \/ handleActivateFreeBoost
  \/ handleActivateFreeBoostFailed
  \/ handleAdReward
  \/ handleAdRewardFailed
  \/ updateBoostStatus

SpecBoostB == InitBoostB /\ [][NextBoostB]_vars

\* the free boost of the second variant, asked for by two sessions of one user
NextTwoSessions ==
  \/ \E s \in Sessions : activateBoostRead(s)
  \/ \E s \in Sessions : activateBoostReadRefused(s)
  \/ \E s \in Sessions : activateBoostUpdateDoc(s)
  \/ twoSessionsTick

SpecTwoSessions == InitBoostB /\ [][NextTwoSessions]_vars

\* the location watch of one mount of MapScreen
NextLocation ==
  \/ startWatchingLocation
  \/ requestPermissionsDenied
  \/ watchPositionAsync
  \/ watchSubscriptionAssigned
  \/ locationUpdate
  \/ stopWatchingLocation

SpecLocation == InitCheckIn /\ [][NextLocation]_vars

\* the earnings flush of the first variant
NextFlush ==
  \/ Tick
  \/ handleEarningsUpdate
  \/ handleEarningsUpdateFails
  \/ loadUserDataEarnings

SpecFlush == InitFlush /\ [][NextFlush]_vars

\* getVisibleGridSquares, called with every centre and radius of the model
NextGrid == callGetVisibleGridSquares

\* getVisibleGridSquares with arguments of every kind
NextGridInputs ==
  \/ callGetVisibleGridSquares
  \/ callGetVisibleGridSquaresNonFinite

SpecGridInputs == InitGrid /\ [][NextGridInputs]_vars

\* the grid addressing
GridIdInit ==
  /\ gridArgs = [op |-> "generateGridSquare", latitude |-> 0, longitude |-> 0]
  /\ gridIds = [square |-> generateGridSquare(0, 0),
                within |-> isWithinGridSquareAt(0, 0, generateGridSquare(0, 0))]

InitGridId == BoostIdle /\ CheckInInit /\ EarnInit /\ FlushInit /\ ServiceInit /\ GridIdInit

NextGridId ==
  \/ callGenerateGridSquare
  \/ callGridToLatLng

SpecGridId == InitGridId /\ [][NextGridId]_vars

SpecGrid == InitGrid /\ [][NextGrid]_vars

----------------------------------------------------------------------------
(* Claims about the boost state machine *)

Max(a, b) == IF a >= b THEN a ELSE b

MAX_BOOST_MS == MAX_BOOST_MINUTES * MS_PER_MINUTE

FourFreeGrantsGive120Minutes ==
  /\ freeRun = 4 =>
       /\ boostState.freeBoostsRemaining <= 0
       /\ boostState.boostExpiresAt = firstGrantAt + 4 * BOOST_INCREMENT_MS
  /\ freeRun \in 1..3 =>
       /\ boostState.freeBoostsRemaining = MAX_FREE_BOOSTS - freeRun
       /\ boostState.boostExpiresAt = firstGrantAt + freeRun * BOOST_INCREMENT_MS
       /\ boostState.boostTimeRemaining < MAX_BOOST_MS
  /\ (boostState.freeBoostsRemaining = MAX_FREE_BOOSTS /\ boostState.boostExpiresAt = Null)
       => boostState.boostTimeRemaining < MAX_BOOST_MS

FourFreeGrantsMade ==
  /\ freeRun = 4
  /\ now > firstGrantAt
  /\ boostState.boostExpiresAt = firstGrantAt + 4 * BOOST_INCREMENT_MS

\* the step in which the write of a grant is applied and the grant takes effect
GrantTakesEffect ==
  /\ writeQueue # <<>>
  /\ IsGrant(Head(writeQueue))
  /\ userDoc' = updateDoc(userDoc, Head(writeQueue).patch)
  /\ userDoc' # userDoc

\* C10: a grant made at time `at` that takes effect below the ceiling sets the
\* expiry to max(at, current expiry) + 30 minutes.
GrantExtendsFromMaxOfNowAndExpiry ==
  [][GrantTakesEffect =>
       LET w == Head(writeQueue)
           target == Max(w.at, boostState.boostExpiresAt) + BOOST_INCREMENT_MS
       IN target - w.at <= MAX_BOOST_MS => w.patch.boostExpiresAt = target]_vars

\* C7: the paid grants that took effect in an account never number more than
\* the maximum of 12, whatever boost state the session was started with.
PaidGrantsWithinMaximum == paidGranted <= MAX_AD_BOOSTS

----------------------------------------------------------------------------
(* Claims about the map *)

\* C2: once a cell has an owner in the store, its ownerId never changes: the
\* first writer wins and no later purchase of the cell replaces it.
OwnerNeverChanges ==
  [][\A c \in GridIds :
       properties[c] # NoOwner => properties'[c] = properties[c]]_vars

\* C4: the store never holds two check-in records of the same visitor for the
\* same cell on the same US-Eastern day.
OneCheckInPerVisitorCellDay ==
  \A i, j \in 1..Len(checkIns) :
    i # j => ~(/\ checkIns[i].userId = checkIns[j].userId
               /\ checkIns[i].propertyId = checkIns[j].propertyId
               /\ checkIns[i].day = checkIns[j].day)

\* C8: no user's persisted TB balance is ever negative.
TBBalanceNeverNegative == \A u \in Users : tbBalance[u] >= 0

----------------------------------------------------------------------------
(* Claims about the second variant, the flush and the grid *)

\* C6: in the second variant (activateBoost), four free grants made back to
\* back from a fresh account (4 free grants, no expiry), with no reset, paid
\* grant or restart between them, leave no free grant, so that the fifth is
\* refused, and an expiry 120 minutes after the time of the first grant.
FourFreeGrantsGive120MinutesB ==
  freeRunB = 4 =>
    /\ userDocB.freeBoostsRemaining <= 0
    /\ sessionB.freeBoostsRemaining <= 0
    /\ userDocB.boostEndTime = firstGrantAtB + 4 * BOOST_INCREMENT_MS

\* C3: the stored usdEarnings never decreases: every step that writes it
\* stores a value greater than or equal to the value stored before.
UsdEarningsNeverDecreases ==
  [][userDocB'.usdEarnings >= userDocB.usdEarnings]_vars

\* C5: a flush performed right after a flush with the same argument, with no
\* time elapsed and nothing else done between them, leaves the stored total
\* as the first flush left it.
FlushTwiceLeavesTotal ==
  [][(/\ flushCount > 0
      /\ flushCount' = flushCount + 1
      /\ lastFlush' = lastFlush) => storedUsdEarnings' = storedUsdEarnings]_vars

\* the range of the largest centred square of at most MAX_GRID_SQUARES cells
LargestRangeUnderCap ==
  CHOOSE k \in 0..MAX_GRID_SQUARES :
    /\ (2 * k + 1) * (2 * k + 1) <= MAX_GRID_SQUARES
    /\ (2 * k + 3) * (2 * k + 3) > MAX_GRID_SQUARES

\* C9: getVisibleGridSquares never returns more than 500 ids; for a valid
\* centre, when the square of the requested radius holds more than 500 cells
\* it returns the largest centred square of at most 500 cells.
VisibleGridSquaresWithinCap ==
  /\ Cardinality(gridIds) <= MAX_GRID_SQUARES
  /\ LET range == Ceil(gridArgs.radiusInMeters, METERS_PER_SQUARE)
         center == latLngToGridId(gridArgs.centerLat, gridArgs.centerLng)
     IN (/\ Abs(gridArgs.centerLat) <= MAX_LATITUDE
         /\ Abs(gridArgs.centerLng) <= MAX_LONGITUDE
         /\ (2 * range + 1) * (2 * range + 1) > MAX_GRID_SQUARES)
        => gridIds = SquareAround(center[1], center[2], LargestRangeUnderCap)

----------------------------------------------------------------------------
(* Claims about the replenishment of the free grants and the expiry *)

\* the step in which the write of a free grant is applied
FreeGrantTakesEffect ==
  /\ writeQueue # <<>>
  /\ Head(writeQueue).kind = "free"
  /\ userDoc' = updateDoc(userDoc, Head(writeQueue).patch)
  /\ boostState'.freeBoostsRemaining = boostState.freeBoostsRemaining - 1

\* C11: a free grant made at time `at` that takes freeBoostsRemaining from 1
\* to 0 while no reset time is set puts at + 6 hours in the store as
\* nextFreeBoostResetAt; a free grant that leaves free grants, or is made
\* while a reset time is set, leaves the reset time of the session and of the
\* store as they were.
FreeGrantSetsResetOnlyOnExhaustion ==
  [][FreeGrantTakesEffect =>
       IF boostState.freeBoostsRemaining = 1 /\ boostState.nextFreeBoostResetAt = Null
       THEN /\ userDoc'.freeBoostsRemaining = 0
            /\ userDoc'.nextFreeBoostResetAt
                 = Head(writeQueue).at + RESET_COOLDOWN_MS
       ELSE /\ boostState'.nextFreeBoostResetAt = boostState.nextFreeBoostResetAt
            /\ userDoc'.nextFreeBoostResetAt = boostState.nextFreeBoostResetAt]_vars

\* the quota was exhausted by a grant made after time 0 and the reset time
\* that grant computed is in the store
ExhaustingGrantStored ==
  /\ userDoc.freeBoostsRemaining = 0
  /\ userDoc.nextFreeBoostResetAt # Null
  /\ userDoc.nextFreeBoostResetAt > RESET_COOLDOWN_MS
  /\ boostState.nextFreeBoostResetAt = userDoc.nextFreeBoostResetAt

\* the reset time of the session is set and has been reached
ResetDue ==
  /\ boostState.nextFreeBoostResetAt # Null
  /\ now >= boostState.nextFreeBoostResetAt

\* the write checkResetTimer sends to the store
IsResetWrite(w) ==
  /\ w.kind = "timer"
  /\ w.patch.freeBoostsRemaining = 4
  /\ w.patch.nextFreeBoostResetAt = Null

ResetOnlyAfterFullCooldown ==
  [][(/\ exhaustedAtB # Null
      /\ userDocB'.lastBoostReset # userDocB.lastBoostReset)
       => now - exhaustedAtB >= RESET_COOLDOWN_MS]_vars

\* the expiry of the session is set and has been reached
ExpiryDue ==
  /\ boostState.boostExpiresAt # Null
  /\ now >= boostState.boostExpiresAt

\* the step in which the store applies the write of a timer callback
TimerWriteApplied ==
  /\ writeQueue # <<>>
  /\ Head(writeQueue).kind = "timer"
  /\ userDoc' = updateDoc(userDoc, Head(writeQueue).patch)

\* C14: when updateBoostTimer runs with the expiry set and reached, the
\* session has no expiry and no active boost afterwards and the write of the
\* cleared expiry is on its way to the store; and the store does not get the
\* expired expiry back: no write of a timer callback puts into the store an
\* expiry that has passed and that the session no longer holds.
ExpiredBoostClearedForGood ==
  /\ [][(ExpiryDue /\ updateBoostTimerFires) =>
          /\ boostState'.boostExpiresAt = Null
          /\ ~boostState'.isBoostActive
          /\ \E i \in 1..Len(writeQueue') :
               /\ writeQueue'[i].kind = "timer"
               /\ writeQueue'[i].patch.boostExpiresAt = Null]_vars
  /\ [][(TimerWriteApplied /\ userDoc'.boostExpiresAt # Null) =>
          \/ userDoc'.boostExpiresAt > now
          \/ userDoc'.boostExpiresAt = boostState.boostExpiresAt]_vars

\* a time the session start found in the document it read, already reached
LoadedPast(t) == t # Null /\ t <= loadedDoc.at

\* C15: once the writes of a session start have completed: if the expiry read
\* at the start had passed, the boost is inactive and the store holds no
\* expiry; if the reset time read at the start had passed, the session and
\* the store hold 4 free grants and the store holds no reset time; if both
\* had passed, both hold.
StartUpSettlesStore ==
  writeQueue = <<>> =>
    /\ LoadedPast(loadedDoc.doc.boostExpiresAt) =>
         /\ ~boostState.isBoostActive
         /\ boostState.boostExpiresAt = Null
         /\ userDoc.boostExpiresAt = Null
    /\ LoadedPast(loadedDoc.doc.nextFreeBoostResetAt) =>
         /\ boostState.freeBoostsRemaining = 4
         /\ userDoc.freeBoostsRemaining = 4
         /\ userDoc.nextFreeBoostResetAt = Null

----------------------------------------------------------------------------
(* Claims about the earnings *)

\* the length of the part of [a, b] that lies before `end`
LengthBefore(a, b, end) == IF end <= a THEN 0 ELSE IF end >= b THEN b - a ELSE end - a

\* the seconds of [lastEarningsUpdate, now] with the boost on, for the user
\* document as it is
BoostedSecondsNow ==
  IF userDocB.boostEndTime = Null THEN 0
  ELSE Seconds(LengthBefore(userDocB.lastEarningsUpdate, now, userDocB.boostEndTime))

ElapsedSecondsNow == Seconds(now - userDocB.lastEarningsUpdate)

\* C16: the catch-up computed at a session start adds to the stored total
\* normalSeconds x totalRate + boostedSeconds x totalRate x 2, where the two
\* make up the time elapsed since the last snapshot and boostedSeconds is
\* between 0 and the elapsed time: elapsed x totalRate with no boost, and
\* elapsed x totalRate x 2 with the interval wholly before the boost end.
OfflineEarningsSplitByBoost ==
  [][loadOfflineEarnings =>
       LET totalRate == baseRatePerSecond(getPropertiesByOwner(Earner))
           boostedSeconds == BoostedSecondsNow
           normalSeconds == ElapsedSecondsNow - boostedSeconds
           newEarnings == sessionB'.baseEarnings - userDocB.usdEarnings
       IN /\ 0 <= boostedSeconds /\ boostedSeconds <= ElapsedSecondsNow
          /\ newEarnings = normalSeconds * totalRate + boostedSeconds * totalRate * 2
          /\ userDocB.boostEndTime = Null
               => newEarnings = ElapsedSecondsNow * totalRate
          /\ (userDocB.boostEndTime # Null /\ userDocB.boostEndTime >= now)
               => newEarnings = ElapsedSecondsNow * totalRate * 2]_vars

\* a session started on a snapshot whose boost ended part of the way through
\* the time elapsed, with a mine owned
CatchUpAcrossBoostEnd ==
  /\ userDocB.boostEndTime # Null
  /\ userDocB.lastEarningsUpdate < userDocB.boostEndTime
  /\ userDocB.boostEndTime < now
  /\ now > 300000
  /\ sessionB.sessionStart = now
  /\ sessionB.earningsRate > 0
  /\ sessionB.baseEarnings
       = userDocB.usdEarnings
         + sessionB.earningsRate * (ElapsedSecondsNow + BoostedSecondsNow)

\* the length of the part of [a, b] that lies in [c, d]
Overlap(a, b, c, d) ==
  LET lo == Max(a, c)
      hi == Min(b, d)
  IN IF hi > lo THEN hi - lo ELSE 0

\* C17: of the time from the last snapshot to now, only the part inside the
\* boost window [boost start, boost end] is credited at twice the rate; the
\* time that elapsed before the boost was started is credited once.  Checked
\* at the session starts that follow a single free grant made at
\* firstGrantAtB on an account without a boost.
BoostedOnlyInsideWindow ==
  [][(loadOfflineEarnings /\ freeRunB = 1) =>
       sessionB'.baseEarnings - userDocB.usdEarnings
         = baseRatePerSecond(getPropertiesByOwner(Earner))
           * (ElapsedSecondsNow
              + Seconds(Overlap(userDocB.lastEarningsUpdate, now,
                                firstGrantAtB, userDocB.boostEndTime)))]_vars

\* the cells of a mine type in the Earner's session
OwnedOfType(mt) == {p \in ownedProperties[Earner] : p.mineType = mt}

\* the sum of the per-category rates of the cells the Earner owns
OwnedRateSum ==
  11 * Cardinality(OwnedOfType("rock")) + 16 * Cardinality(OwnedOfType("coal"))
  + 22 * Cardinality(OwnedOfType("gold")) + 44 * Cardinality(OwnedOfType("diamond"))

AutoSaveFiresWithinPeriod ==
  (sessionB.earningsRate > 0 /\ now - autoSave.mountedAt > AUTO_SAVE_MS)
    => autoSave.fired > 0

----------------------------------------------------------------------------
(* Claims about the check-in *)

\* a check-in has just been submitted: the call it started
CheckInSubmitted ==
  /\ Len(calls') = Len(calls) + 1
  /\ calls'[Len(calls')].op = "checkIn"

\* C20: every check-in that is submitted, and so every record created,
\* targets a cell owned by somebody other than the visitor in which the
\* visitor stands, whatever was selected or wherever the visitor went after
\* handleCheckIn opened the modal.
CheckInTargetsVisitedCellOfOther ==
  [][CheckInSubmitted =>
       LET c == calls'[Len(calls')]
       IN /\ c.ownerId # NoOwner
          /\ c.ownerId # c.user
          /\ properties[c.id] # NoOwner
          /\ properties[c.id] # c.user
          /\ userLocation[c.user] = c.id]_vars

\* a check-in in flight has just got past the owner's reward of createCheckIn
OwnerRewardPassed(i) ==
  /\ Len(calls') = Len(calls)
  /\ calls[i].op = "checkIn"
  /\ calls[i].pc # "updateUserBalance"
  /\ calls'[i].pc = "updateUserBalance"

\* C21: a check-in that goes through adds 1, 3 or 5 TB (1, + 2 for a message, + 2
\* for a photo) to the visitor's persisted balance, and adds exactly 1 TB to
\* the persisted balance of the owner of the cell.
CheckInCreditsVisitorAndOwner ==
  /\ [][CheckInSubmitted => calls'[Len(calls')].tbEarned \in {1, 3, 5}]_vars
  /\ [][handleCheckInUpdateUserBalance =>
          \E i \in 1..Len(calls) :
            /\ calls[i].pc = "updateUserBalance"
            /\ calls' = RemoveAt(calls, i)
            /\ tbBalance'[calls[i].user]
                 = tbBalance[calls[i].user] + calls[i].tbEarned]_vars
  /\ [][\A i \in 1..Len(calls) :
          OwnerRewardPassed(i) =>
            tbBalance'[calls[i].ownerId] = tbBalance[calls[i].ownerId] + 1]_vars

----------------------------------------------------------------------------
(* Claims about the purchase *)

\* the Chebyshev distance of two cells
Chebyshev(a, b) == Max(Abs(a[1] - b[1]), Abs(a[2] - b[2]))

\* a purchase has just been handed to the store
PurchaseSubmitted ==
  /\ Len(calls') = Len(calls) + 1
  /\ calls'[Len(calls')].op = "purchase"

\* C22: a purchase reaches the store only from a user whose cell is at
\* Chebyshev distance at most 1 from the target; without such a request in
\* flight no property record is written and no balance is debited.
PurchaseOnlyWithinOneCell ==
  /\ [][PurchaseSubmitted =>
          LET c == calls'[Len(calls')]
          IN Chebyshev(userLocation[c.user], c.id) <= 1]_vars
  /\ [][\A g \in GridIds :
          properties'[g] # properties[g] =>
            \E i \in 1..Len(calls) :
              /\ calls[i].op = "purchase"
              /\ calls[i].id = g
              /\ calls[i].user = properties'[g]]_vars
  /\ [][\A u \in Users :
          tbBalance'[u] < tbBalance[u] =>
            \E i \in 1..Len(calls) :
              calls[i].op = "purchase" /\ calls[i].user = u]_vars

\* a purchase made from the cell itself has been stored and paid, while the
\* other cell, two cells away, is selected and free
PurchaseStoredAndFarCellFree ==
  \E u \in Buyers :
    /\ properties[userLocation[u]] = u
    /\ tbBalance[u] < STARTING_TB
    /\ selectedSquare[u] # NoSquare
    /\ Chebyshev(userLocation[u], selectedSquare[u].id) > 1
    /\ properties[selectedSquare[u].id] = NoOwner
    /\ calls = <<>>

----------------------------------------------------------------------------
(* Claims about the grid *)

\* the index of the cell of GRID_SIZE that holds the coordinate a
CellIndexOf(a) ==
  CHOOSE k \in -75000..75000 : k * GRID_SIZE <= a /\ a < (k + 1) * GRID_SIZE

\* the same for any coordinate of the globe: the index k with
\* k * GRID_SIZE <= a < (k + 1) * GRID_SIZE, found from the digits of a
CellIndexOfWide(a) ==
  LET m == IF a < 0 THEN -a ELSE a
      q == (m - (m % GRID_SIZE)) \div GRID_SIZE
  IN IF a >= 0 THEN q ELSE IF m % GRID_SIZE = 0 THEN -q ELSE -q - 1

\* "x_y" written out for two integers
IdText(x, y) ==
  LET text(n) == IF n < 0 THEN <<"-">> \o NumberToString(-n) ELSE NumberToString(n)
  IN text(x) \o <<"_">> \o text(y)

\* C23: the id computed from the centre of the cell (gridX, gridY) is
\* "gridX_gridY", for negative indices too; the square generated for a point
\* has the id of the cell the point lies in, its centre is the centre of
\* that cell, and the point is within the square.
GridAddressingRoundTrips ==
  /\ gridArgs.op = "gridToLatLng" =>
       gridIds.id = IdText(gridArgs.gridX, gridArgs.gridY)
  /\ gridArgs.op = "generateGridSquare" =>
       LET x == CellIndexOf(gridArgs.latitude)
           y == CellIndexOf(gridArgs.longitude)
       IN /\ gridIds.square.id = IdText(x, y)
          /\ gridIds.square.centerLat = gridToLatLng(x, y).latitude
          /\ gridIds.square.centerLng = gridToLatLng(x, y).longitude
          /\ gridIds.within

\* a square generated for a point with negative coordinates off the cell
\* border
NegativePointSquare ==
  /\ gridArgs.op = "generateGridSquare"
  /\ gridArgs.latitude = -11
  /\ gridArgs.longitude = -105
  /\ gridIds.square.id = <<"-", "2", "_", "-", "1", "1">>
  /\ gridIds.within

\* C24: getVisibleGridSquares returns nothing when the centre latitude is
\* outside +-90, the centre longitude is outside +-180, or one of its three
\* arguments is not a finite number; for a valid centre and a radius from 0 to
\* 100 m it returns a list that is not empty and holds the cell of the centre.
VisibleGridSquaresValidated ==
  LET lat == gridArgs.centerLat
      lng == gridArgs.centerLng
      radius == gridArgs.radiusInMeters
      anyNonFinite == lat \in NonFinite \/ lng \in NonFinite \/ radius \in NonFinite
      outside == lat < -MAX_LATITUDE \/ lat > MAX_LATITUDE
                   \/ lng < -MAX_LONGITUDE \/ lng > MAX_LONGITUDE
  IN /\ (anyNonFinite \/ outside) => gridIds = {}
     /\ (~anyNonFinite /\ ~outside /\ radius >= 0 /\ radius <= 100) =>
          /\ gridIds # {}
          /\ <<CellIndexOfWide(lat), CellIndexOfWide(lng)>> \in gridIds

\* a call with a radius that is not a number, turned away
NaNRadiusTurnedAway ==
  /\ gridArgs.centerLat = 0
  /\ gridArgs.radiusInMeters = NaN
  /\ gridIds = {}

----------------------------------------------------------------------------
(* Further claims about the boost state machine *)

\* C25: the free grants remaining are an integer from 0 to 4 in every
\* reachable state, in the session and in the store (of the first and of the
\* second variant), whatever free grants, paid grants, replenish checks and
\* session starts were made.
FreeBoostsWithinQuota ==
  /\ boostState.freeBoostsRemaining \in 0..MAX_FREE_BOOSTS
  /\ userDoc.freeBoostsRemaining \in 0..MAX_FREE_BOOSTS
  /\ \A i \in 1..Len(writeQueue) :
       writeQueue[i].patch.freeBoostsRemaining \in (0..MAX_FREE_BOOSTS) \cup {Keep}
  /\ userDocB.freeBoostsRemaining \in 0..MAX_FREE_BOOSTS
  /\ sessionB.freeBoostsRemaining \in 0..MAX_FREE_BOOSTS

\* the quota is used up in the session and in the store, and a paid grant
\* has been made
QuotaUsedUpAndPaidGrant ==
  /\ boostState.freeBoostsRemaining = 0
  /\ userDoc.freeBoostsRemaining = 0
  /\ paidGranted > 0
  /\ writeQueue = <<>>

----------------------------------------------------------------------------
(* Further claims about the earnings *)

\* C26: every flush writes a total that equals the earnings accrued up to
\* the snapshot time written with it: from one stored snapshot to the next
\* the total grows by rate x the time between the two snapshot times, so
\* that no interval is counted twice and none is dropped.  Checked in
\* sessions whose rate does not change.
FlushCountsEveryIntervalOnce ==
  [][saveCurrentEarningsSaved =>
       userDocB'.usdEarnings - userDocB.usdEarnings
         = baseRatePerSecond(getPropertiesByOwner(Earner))
           * Seconds(userDocB'.lastEarningsUpdate - userDocB.lastEarningsUpdate)]_vars

\* the fields of the boost state that a grant sets, in the session and in
\* the store
GrantFields ==
  <<boostState.freeBoostsRemaining, boostState.adBoostsUsed,
    boostState.boostExpiresAt, boostState.nextFreeBoostResetAt,
    userDoc.freeBoostsRemaining, userDoc.adBoostsUsed,
    userDoc.boostExpiresAt, userDoc.nextFreeBoostResetAt>>

RECURSIVE EarnedSincePurchase(_)
EarnedSincePurchase(cells) ==
  IF cells = {} THEN 0
  ELSE LET c == CHOOSE d \in cells : TRUE
       IN rentRates[mineTypes[c]] * Seconds(now - purchasedAt[c])
          + EarnedSincePurchase(cells \ {c})

\* C28: purchaseProperty stores the earnings accrued up to the purchase at
\* the rate of the cells owned before it, and only then the new cell, so that
\* a cell adds to the persisted earnings only for the time after its
\* purchase: on an account that never had a boost, the persisted total is
\* never more than what each stored cell earns from its purchase on.
PurchasedCellEarnsOnlyAfterPurchase ==
  userDocB.boostEndTime = Null =>
    userDocB.usdEarnings
      <= EarnedSincePurchase({c \in GridIds : properties[c] = Earner})

\* C29: a change of the rate in the middle of a session (a boost starts or
\* ends, a cell is bought) does not recompute what the session has accrued:
\* on a tick of the money counter, 100 ms after the tick before, the displayed
\* total grows by no more than the rate of that moment earns in one second.
RateChangeKeepsAccruedEarnings ==
  [][(/\ sessionB'.displayEarnings # sessionB.displayEarnings
      /\ sessionB'.sessionStart = sessionB.sessionStart)
       => sessionB'.displayEarnings - sessionB.displayEarnings
            <= sessionB'.earningsRate * Seconds(MS_PER_SECOND)]_vars

\* C30: every write of boost state carries the values of the session: in one
\* session in which no write fails, once all writes have been applied the
\* store holds the expiry and the reset time that the session holds.
StoreHoldsSessionBoostTimes ==
  writeQueue = <<>> =>
    /\ userDoc.boostExpiresAt = boostState.boostExpiresAt
    /\ userDoc.nextFreeBoostResetAt = boostState.nextFreeBoostResetAt

\* C31: a user is debited the price of a cell only if that user ends up as
\* its stored owner: once no purchase is in flight, no user has paid for more
\* cells than the store holds for that user, however the purchases of two
\* users interleave.
DebitedOnlyForCellsOwned ==
  calls = <<>> =>
    \A u \in Users :
      STARTING_TB - tbBalance[u]
        <= PROPERTY_COST * Cardinality({c \in GridIds : properties[c] = u})

\* the user document after the store applied the writes of q, in order
RECURSIVE AfterWrites(_, _)
AfterWrites(doc, q) ==
  IF q = <<>> THEN doc ELSE AfterWrites(updateDoc(doc, Head(q).patch), Tail(q))

\* the count of paid grants that the document holds (none before the first)
PaidUsed(doc) == IF doc.adBoostsUsed = Undefined THEN 0 ELSE doc.adBoostsUsed

FailedCheckInCanBeRetried ==
  [][\A i \in 1..Len(calls) :
       (/\ checkInRejects
        /\ calls[i].op = "checkIn"
        /\ calls' = RemoveAt(calls, i))
         => LET last == lastCheckIns'[calls[i].user][calls[i].id]
            IN last = Null \/ last # today']_vars


\* C35: after loadUserData of an account that exists, the TB balance of the
\* session is the tbBalance the store holds, whatever its value, 0 included.
LoadedBalanceIsPersistedBalance ==
  [][\A u \in Users : loadUserDataMap(u) => userTB'[u] = tbBalance[u]]_vars


\* C36: when the store rejects a purchase (the cell is owned already, or a
\* request fails), the map of the buyer does not show the cell as the
\* buyer's: after the rejection the owner the session shows for the cell is
\* the owner the store holds, and the balance of the session is unchanged.
RejectedPurchaseNotShownAsOwned ==
  [][\A i \in 1..Len(calls) :
       (/\ purchasePropertyAlreadyOwned \/ purchasePropertyRejects
        /\ calls[i].op = "purchase"
        /\ calls' = RemoveAt(calls, i))
         => /\ gridSquares'[calls[i].user][calls[i].id] = properties'[calls[i].id]
            /\ userTB'[calls[i].user] = userTB[calls[i].user]]_vars


\* C37: with two sessions of one user running against the same store, the
\* free grants that succeed between two replenishments never number more
\* than 4.
TwoSessionsFreeGrantsWithinQuota == freeGranted <= MAX_FREE_BOOSTS


\* C38: no location callback is delivered after stopWatchingLocation has
\* returned, also when it was called while startWatchingLocation was waiting
\* for the permission or for the subscription; and the callback is only ever
\* called with finite coordinates, the latitude within 90 and the longitude
\* within 180 degrees of 0.
NoCallbackAfterStop ==
  /\ ~callbackAfterStop
  /\ lastCallback # NoCallback => validCoords(lastCallback)

====
